---- MODULE Spec2Model ----
(***************************************************************************)
(* Model of the task scheduling and execution engine of data-auto-export:  *)
(*   core/services/task_scheduler.py   TaskScheduler over the job engine   *)
(*   core/services/task_executor.py    TaskExecutor.execute_task           *)
(*   core/database/connection.py       ConnectionManager.execute_query     *)
(*   core/models/execution_log.py      ExecutionLog                        *)
(*   cli/scheduler.py                  the scheduler process, its reloads  *)
(*   api/app.py                        task handlers, notify_scheduler     *)
(*                                                                         *)
(* Specifications sharing the variables:                                   *)
(*   Spec            the Task Scheduler and the engine's recurring jobs    *)
(*   SpecManual      Spec plus the clock and the one-shot jobs of          *)
(*                   execute_task_now                                      *)
(*   SpecExec        one Task Executor running execute_task step by step   *)
(*   SpecRemove      remove_task step by step, by concurrent threads       *)
(*   SpecLife        start() and stop() step by step, under the lock       *)
(*   SpecReload      the scheduler process serving reload-task requests    *)
(*   SpecReloadRace  SpecReload with update requests only                  *)
(*   SpecReloadAll   the reload-all request against a drifting task table  *)
(*   SpecReschedule  reschedule_all_tasks over arbitrary task lists        *)
(*   SpecRegistry    the ConnectionManager's registry of pooled engines    *)
(*   SpecApi         task mutations of the API and their notifications     *)
(*   SpecTest        TaskExecutor.test_task                                *)
(*   SpecCoord       the task callback of the scheduler process            *)
(*   SpecUpkeep      fires whose callback returns or raises, the cleanup   *)
(*   SpecManualLive  manual executions on an engine that is on time        *)
(*   SpecLoader      the cache of script functions                         *)
(*   SpecRace        scheduler calls racing with reschedule_all_tasks      *)
(*   SpecReloadAllRace  reload-all next to reload-task requests            *)
(*   SpecStop        start() and stop() of the scheduler process           *)
(***************************************************************************)
EXTENDS Integers, FiniteSets, Sequences, TLC

VARIABLES
    running,     \* TaskScheduler._running (the job engine is started)
    jobs,        \* the job engine's jobs, keyed by job id
    callbacks,   \* TaskScheduler._job_callbacks, keyed by job id
    instances,   \* per job id: runs of that job whose callback is executing
    now,         \* wall clock, in seconds
    ret,         \* outcome of the last scheduler operation or engine event
    pc,          \* position of the executing thread inside execute_task
    task,        \* the task given to execute_task
    log,         \* the ExecutionLog built by execute_task
    query,       \* the query submitted to the single-worker pool of execute_query
    env,         \* what the collaborators do during this execution
    engine,      \* the job engine: its state and the fault of a misuse
    lock,        \* the thread holding TaskScheduler._lock
    thr,         \* the threads that run scheduler operations step by step
    table,       \* the persisted task table: the row of every task id
    reg,         \* ConnectionManager: its three maps and the engines it created
    api,         \* the API process: last task request, notification threads
    test,        \* one call of TaskExecutor.test_task
    coord,       \* TaskSchedulerApp._task_callback and the rows it writes
    loader,      \* TaskExecutor._script_cache and the script files it loads
    app          \* TaskSchedulerApp: its flags, HTTP server and stop() call

schedVars == <<running, jobs, callbacks, instances, ret>>
execVars  == <<pc, task, log, query, env>>
coordVars == <<engine, lock, thr, table>>
svcVars   == <<reg, api, test, coord, loader, app>>
vars      == <<running, jobs, callbacks, instances, now, ret, pc, task, log, query, env,
               engine, lock, thr, table, reg, api, test, coord, loader, app>>

----------------------------------------------------------------------------
(* Bounds of the model *)

MaxTasks  == 1      \* task ids 1..MaxTasks
MaxTime   == 2      \* the clock runs from 0 to MaxTime
MaxManual == 2      \* one-shot jobs, waiting or running, at the same time
MaxThreads == 2     \* threads calling into the scheduler at the same time
MaxSources == 2     \* data-source names 1..MaxSources
MaxEngines == 3     \* engines created by one ConnectionManager
MaxNotes   == 2     \* notification threads of the API alive at the same time
MaxFires   == 2     \* fires delivered to the task callback
MaxVersions == 2    \* distinct versions of a script file
MaxRequests == 2    \* requests handled by the HTTP control server

TaskIds == 1..MaxTasks
Times   == 0..MaxTime
Threads == 1..MaxThreads

----------------------------------------------------------------------------
(* Values *)

None == "None"                      \* Python's None
Null == -1             \* None in a numeric field

ACTIVE   == "active"
INACTIVE == "inactive"
DELETED  == "deleted"
TaskStatus == {ACTIVE, INACTIVE, DELETED}

\* cron_expression values: absent, empty, a five-field expression, a
\* six-field expression (croniter reads a seconds field, from_crontab wants
\* exactly five fields) and text that is no cron expression at all
CronFive  == "*/5 * * * *"
CronSix   == "0 */5 * * * *"
CronBad   == "every day"
CronExprs == {None, "", CronFive, CronSix, CronBad}

DefaultTimezone == "Asia/Shanghai"
Timezones == {None, "UTC"}

Callbacks == {None, "_task_callback"}

\* the ExportTask fields the scheduler reads
SchedTasks == [id : TaskIds, status : TaskStatus,
               cron_expression : CronExprs, timezone : Timezones]

\* the tasks of the default timezone that are or are not schedulable
ListTasks == [id : TaskIds, status : {ACTIVE, INACTIVE},
              cron_expression : {None, CronFive, CronSix}, timezone : {None}]

\* job ids: f"task_{task.id}" and f"manual_{task.id}_{%Y%m%d_%H%M%S}"
NoStamp == -1
TaskJobId(id)        == <<"task", id, NoStamp>>
ManualJobId(id, t)   == <<"manual", id, t>>
TaskJobIds   == {TaskJobId(i) : i \in TaskIds}
ManualJobIds == {ManualJobId(i, t) : i \in TaskIds, t \in Times}
JobIds       == TaskJobIds \cup ManualJobIds

\* next_run_time of a job: not computed yet (job added to a stopped engine),
\* computed, or None (the job is paused)
Unset   == "unset"
NextSet == "set"

MaxInstances == 1
MisfireGraceTime == 1800
DateMisfireGraceTime == 1

----------------------------------------------------------------------------
(* ExportTask and cron helpers *)

IsActive(t) == t.status = ACTIVE

\* Python truthiness of task.cron_expression
Truthy(c) == c # None /\ c # ""

\* TaskScheduler._validate_cron_expression: croniter(cron_expr) does not raise
ValidateCron(c) == c \in {CronFive, CronSix}

\* CronTrigger.from_crontab(expr, timezone) does not raise
FromCrontabOK(c) == c = CronFive

EffectiveTz(t) == IF t.timezone = None THEN DefaultTimezone ELSE t.timezone

CronJob(t, run) ==
    [func |-> "_execute_scheduled_task",
     trigger |-> [type |-> "cron", expr |-> t.cron_expression,
                  tz |-> EffectiveTz(t), run_date |-> 0],
     cb |-> None,
     max_instances |-> MaxInstances, coalesce |-> TRUE,
     misfire_grace_time |-> MisfireGraceTime,
     next_run_time |-> IF run THEN NextSet ELSE Unset]

DateJob(cb, t, run) ==
    [func |-> "_execute_manual_task",
     trigger |-> [type |-> "date", expr |-> None, tz |-> None, run_date |-> t],
     cb |-> cb,
     max_instances |-> MaxInstances, coalesce |-> TRUE,
     misfire_grace_time |-> DateMisfireGraceTime,
     next_run_time |-> IF run THEN NextSet ELSE Unset]

\* function f without key k
Drop(f, k) == [x \in (DOMAIN f) \ {k} |-> f[x]]
\* function f with key k bound to v
Put(f, k, v) == [x \in (DOMAIN f) \cup {k} |-> IF x = k THEN v ELSE f[x]]

----------------------------------------------------------------------------
(* TaskScheduler operations as functions of the scheduler state            *)
(*   s = [jobs, callbacks]; the result adds val (return value) and why     *)

\* add_task without the status test
Eligible_m(t) == Truthy(t.cron_expression)

\* add_task, lines 64-66
Eligible(t) == IsActive(t) /\ Truthy(t.cron_expression)

AddTaskSt(s, run, t, cb) ==
    IF ~Eligible(t)
    THEN [jobs |-> s.jobs, callbacks |-> s.callbacks, val |-> FALSE, why |-> "skipped"]
    ELSE IF ~ValidateCron(t.cron_expression)
    THEN [jobs |-> s.jobs, callbacks |-> s.callbacks, val |-> FALSE, why |-> "invalid"]
    ELSE LET jid == TaskJobId(t.id)
             j1  == IF jid \in DOMAIN s.jobs THEN Drop(s.jobs, jid) ELSE s.jobs
         IN  IF ~FromCrontabOK(t.cron_expression)
             THEN [jobs |-> j1, callbacks |-> s.callbacks, val |-> FALSE, why |-> "error"]
             ELSE [jobs |-> Put(j1, jid, CronJob(t, run)),
                   callbacks |-> IF cb # None THEN Put(s.callbacks, jid, cb)
                                 ELSE s.callbacks,
                   val |-> TRUE, why |-> "added"]

RemoveTaskSt(s, id) ==
    LET jid == TaskJobId(id)
    IN  IF jid \in DOMAIN s.jobs
        THEN [jobs |-> Drop(s.jobs, jid),
              callbacks |-> IF jid \in DOMAIN s.callbacks
                            THEN Drop(s.callbacks, jid) ELSE s.callbacks,
              val |-> TRUE, why |-> "removed"]
        ELSE [jobs |-> s.jobs, callbacks |-> s.callbacks, val |-> FALSE, why |-> "absent"]

\* update_task that relies on add_task replacing the job and skips remove_task
UpdateTaskSt_m(s, run, t, cb) == AddTaskSt(s, run, t, cb)

UpdateTaskSt(s, run, t, cb) ==
    LET r == RemoveTaskSt(s, t.id)
    IN  AddTaskSt([jobs |-> r.jobs, callbacks |-> r.callbacks], run, t, cb)

\* get_task_status: the fields the callers read.  next_run_time of a job
\* that is still pending in a stopped engine was never computed, and reading
\* it raises
GetTaskStatus(js, id) ==
    LET jid == TaskJobId(id)
    IN  IF jid \in DOMAIN js
        THEN IF js[jid].next_run_time = Unset
             THEN [raised |-> TRUE, scheduled |-> FALSE, next_run_time |-> None]
             ELSE [raised |-> FALSE, scheduled |-> TRUE,
                   next_run_time |-> js[jid].next_run_time]
        ELSE [raised |-> FALSE, scheduled |-> FALSE, next_run_time |-> None]

\* pause_task / resume_task: the engine clears / recomputes next_run_time
PauseTaskSt(js, id) ==
    LET jid == TaskJobId(id)
    IN  IF jid \in DOMAIN js
        THEN [jobs |-> [js EXCEPT ![jid].next_run_time = None], val |-> TRUE]
        ELSE [jobs |-> js, val |-> FALSE]

ResumeTaskSt(js, id) ==
    LET jid == TaskJobId(id)
    IN  IF jid \in DOMAIN js
        THEN [jobs |-> [js EXCEPT ![jid].next_run_time = NextSet], val |-> TRUE]
        ELSE [jobs |-> js, val |-> FALSE]

Sched == [jobs |-> jobs, callbacks |-> callbacks]

----------------------------------------------------------------------------
(* Init *)

NoLog   == [status |-> None]
NoTask  == [status |-> None]
NoQuery == [driver |-> None, call |-> None, t0 |-> 0, timeout |-> 0]
NoEnv   == [step_start |-> 0]

\* no row of the task table under an id.  notified: the scheduler process
\* has received a reload-task request for the id since the last commit
NoRow == [status |-> None, cron_expression |-> None, timezone |-> None,
          notified |-> TRUE]

\* a thread that is not inside a scheduler operation.  op: the operation,
\* pc: its position, id: the task id it is about, snap: the row it read,
\* overlap: another request for the same id was in flight during this one,
\* saw: what the thread observed when it looked (a job, fires in flight),
\* pre: the job and callback of id when the request began
NoPre   == [jobs |-> <<>>, callbacks |-> <<>>]
IdleThr == [op |-> None, pc |-> "idle", id |-> 0, snap |-> NoRow,
            overlap |-> FALSE, saw |-> FALSE, pre |-> NoPre]

\* ConnectionManager.__init__: three empty maps.  handles: every engine that
\* create_engine has returned, with the name it was made for and whether it
\* is live (probed, holding pooled connections), disposed, or was dropped
\* when its probe failed.  last: the last operation and its outcome
NewRegistry == [engines |-> <<>>, sessions |-> <<>>, cache |-> <<>>,
                handles |-> <<>>,
                last |-> [op |-> "init", name |-> 0, raised |-> FALSE]]

\* the API process before any task request.  req, response: the last task
\* request and the response returned for it; notes: the notification
\* threads that have not finished; done: the last thread that finished
NewApi == [req |-> [op |-> None, id |-> 0],
           response |-> [success |-> FALSE, status |-> 0],
           notes |-> <<>>,
           done |-> [id |-> 0, action |-> None, outcome |-> None]]

\* test_result as test_task builds it (lines 313-320); has_preview: the
\* data_preview and columns are filled
NewTestResult == [success |-> FALSE, has_preview |-> FALSE, row_count |-> 0,
                  execution_time |-> 0, errors |-> <<>>]

\* no call of test_task yet.  start: start_time of the call; calls: the
\* collaborators the call has invoked; failed: the step of the call that
\* failed
NoTest == [pc |-> "idle", task |-> [execution_type |-> None], start |-> 0,
           result |-> NewTestResult, calls |-> {}, failed |-> None]

\* the task callback before any fire.  pc: its position; id, trig: the fire
\* it is handling, the fired-th delivered; executes: the calls of
\* execute_task made for this fire; log: the log execute_task returned;
\* logs: the rows of execution_logs; last: last_execution_time of every task
NewCoord == [pc |-> "idle", id |-> 0, trig |-> None, fired |-> 0, executes |-> 0,
             log |-> [status |-> None, start_time |-> Null],
             logs |-> <<>>,
             last |-> [id \in TaskIds |-> Null]]

\* script paths and function names, as sequences of characters; "::" is
\* the separator _load_script_function puts between them
Sep == <<"::">>
ScriptPaths   == {<<"a">>, <<"a", "::", "x">>}
FunctionNames == {<<"f">>, <<"x", "::", "f">>}

\* a script file: absent, not importable, or a module of some version that
\* has callables under some names (f alone, or every name asked for)
NoFile     == [kind |-> "absent", version |-> 0, names |-> {}]
BrokenFile == [kind |-> "broken", version |-> 0, names |-> {}]
Modules    == [kind : {"module"}, version : 1..MaxVersions,
               names : {{<<"f">>}, FunctionNames}]
FileContents == {NoFile, BrokenFile} \cup Modules

\* TaskExecutor.__init__, line 24: an empty cache.  files: the script files
\* on disk; out: the last call of _load_script_function (read: it executed
\* the file); since: what the loads from file have returned since the cache
\* was last cleared, by (path, function)
NewLoader == [cache |-> <<>>,
              files |-> [p \in ScriptPaths |-> NoFile],
              out   |-> [op |-> "init", path |-> <<>>, fn |-> <<>>, read |-> FALSE,
                         raised |-> None, result |-> NoFile],
              since |-> <<>>]

\* TaskSchedulerApp.__init__ (cli/scheduler.py, lines 30-44): not running,
\* the shutdown event clear, the HTTP server made by make_server and no
\* thread yet.  server: the flags of socketserver.BaseServer (its
\* is_shut_down event starts clear and only serve_forever sets it) and the
\* requests it has handled; service_running: DataExportService._running;
\* pc: the position of a call of stop()
NewApp == [running |-> FALSE, shutdown_event |-> FALSE, service_running |-> FALSE,
           server |-> [shutdown_request |-> FALSE, is_shut_down |-> FALSE,
                       handled |-> 0],
           http_thread |-> "none", pc |-> "idle"]

\* BackgroundScheduler(...) as constructed by _init_scheduler: stopped
NewEngine == [state |-> "stopped", fault |-> None]

Init ==
    /\ running = FALSE
    /\ jobs = <<>>
    /\ callbacks = <<>>
    /\ instances = [j \in JobIds |-> 0]
    /\ now = 0
    /\ ret = [op |-> "init", val |-> TRUE, why |-> "init"]
    /\ pc = "idle"
    /\ task = NoTask
    /\ log = NoLog
    /\ query = NoQuery
    /\ env = NoEnv
    /\ engine = NewEngine
    /\ lock = 0
    /\ thr = [th \in Threads |-> IdleThr]
    /\ table = [id \in TaskIds |-> NoRow]
    /\ reg = NewRegistry
    /\ api = NewApi
    /\ test = NoTest
    /\ coord = NewCoord
    /\ loader = NewLoader
    /\ app = NewApp

----------------------------------------------------------------------------
(* Scheduler actions *)

\* TaskScheduler.start: starting the engine really adds the pending jobs and
\* computes their next run times
Start ==
    /\ ~running
    /\ running' = TRUE
    /\ jobs' = [j \in DOMAIN jobs |->
                   IF jobs[j].next_run_time = Unset
                   THEN [jobs[j] EXCEPT !.next_run_time = NextSet]
                   ELSE jobs[j]]
    /\ ret' = [op |-> "start", val |-> TRUE, why |-> "started"]
    /\ engine' = [engine EXCEPT !.state = "running"]
    /\ UNCHANGED <<callbacks, instances, now, execVars, svcVars, lock, thr, table>>

AddTask(t, cb) ==
    LET r == AddTaskSt(Sched, running, t, cb)
    IN  /\ jobs' = r.jobs
        /\ callbacks' = r.callbacks
        /\ ret' = [op |-> "add", val |-> r.val, why |-> r.why]
        /\ UNCHANGED <<running, instances, now, execVars, coordVars, svcVars>>

RemoveTask(id) ==
    LET r == RemoveTaskSt(Sched, id)
    IN  /\ jobs' = r.jobs
        /\ callbacks' = r.callbacks
        /\ ret' = [op |-> "remove", val |-> r.val, why |-> r.why]
        /\ UNCHANGED <<running, instances, now, execVars, coordVars, svcVars>>

UpdateTask(t, cb) ==
    LET r == UpdateTaskSt(Sched, running, t, cb)
    IN  /\ jobs' = r.jobs
        /\ callbacks' = r.callbacks
        /\ ret' = [op |-> "update", val |-> r.val, why |-> r.why]
        /\ UNCHANGED <<running, instances, now, execVars, coordVars, svcVars>>

PauseTask(id) ==
    LET r == PauseTaskSt(jobs, id)
    IN  /\ jobs' = r.jobs
        /\ ret' = [op |-> "pause", val |-> r.val, why |-> "pause"]
        /\ UNCHANGED <<running, callbacks, instances, now, execVars, coordVars, svcVars>>

ResumeTask(id) ==
    LET r == ResumeTaskSt(jobs, id)
    IN  /\ jobs' = r.jobs
        /\ ret' = [op |-> "resume", val |-> r.val, why |-> "resume"]
        /\ UNCHANGED <<running, callbacks, instances, now, execVars, coordVars, svcVars>>

ManualJobsIn(js) == {j \in DOMAIN js : j[1] = "manual"}
ManualRunning    == {j \in ManualJobIds : instances[j] > 0}

\* a one-shot job that is not given the callback
ManualArgs_m(cb) == None

\* execute_task_now, line 154: args=[task.id, callback]
ManualArgs(cb) == cb

\* execute_task_now: a one-shot job one second ahead, under an id made of the
\* task id and the current second.  A running engine refuses an id that is
\* already in its store (ConflictingIdError, caught: returns False).
ExecuteNow(id, cb) ==
    LET jid == ManualJobId(id, now)
    IN  /\ now + 1 <= MaxTime
        /\ Cardinality(ManualJobsIn(jobs)) + Cardinality(ManualRunning) < MaxManual
        /\ running \/ jid \notin DOMAIN jobs
        /\ IF jid \in DOMAIN jobs
           THEN /\ ret' = [op |-> "execute_now", val |-> FALSE, why |-> "conflict"]
                /\ UNCHANGED jobs
           ELSE /\ jobs' = Put(jobs, jid, DateJob(ManualArgs(cb), now + 1, running))
                /\ ret' = [op |-> "execute_now", val |-> TRUE, why |-> "submitted"]
        /\ UNCHANGED <<running, callbacks, instances, now, execVars, coordVars, svcVars>>

\* an executor that does not count the runs in flight
CanSubmit_m(n, job) == TRUE

\* the engine's executor admits a run of a job while fewer than max_instances
\* runs of that job id are in flight
CanSubmit(n, job) == n < job.max_instances

\* a fire of the recurring job of task id is due.  _execute_scheduled_task
\* calls the callback registered under the job id, if there is one.
CronFire(id) ==
    LET jid == TaskJobId(id)
    IN  /\ running
        /\ jid \in DOMAIN jobs
        /\ jobs[jid].next_run_time = NextSet
        /\ IF ~CanSubmit(instances[jid], jobs[jid])
           THEN /\ ret' = [op |-> "cron_fire", val |-> FALSE, why |-> "max_instances"]
                /\ UNCHANGED instances
           ELSE IF jid \in DOMAIN callbacks
           THEN /\ instances' = [instances EXCEPT ![jid] = @ + 1]
                /\ ret' = [op |-> "cron_fire", val |-> TRUE, why |-> "callback"]
           ELSE /\ ret' = [op |-> "cron_fire", val |-> TRUE, why |-> "no_callback"]
                /\ UNCHANGED instances
        /\ UNCHANGED <<running, jobs, callbacks, now, execVars, coordVars, svcVars>>

\* the run date of a one-shot job has come: the job leaves the store and
\* _execute_manual_task calls the callback it was given, unless the run is
\* later than the job's misfire grace time
ManualFire(jid) ==
    /\ running
    /\ jid \in ManualJobsIn(jobs)
    /\ jobs[jid].next_run_time = NextSet
    /\ now >= jobs[jid].trigger.run_date
    /\ jobs' = Drop(jobs, jid)
    /\ IF now - jobs[jid].trigger.run_date > jobs[jid].misfire_grace_time
       THEN /\ ret' = [op |-> "manual_fire", val |-> FALSE, why |-> "missed"]
            /\ UNCHANGED instances
       ELSE IF ~CanSubmit(instances[jid], jobs[jid])
       THEN /\ ret' = [op |-> "manual_fire", val |-> FALSE, why |-> "max_instances"]
            /\ UNCHANGED instances
       ELSE IF jobs[jid].cb # None
       THEN /\ instances' = [instances EXCEPT ![jid] = @ + 1]
            /\ ret' = [op |-> "manual_fire", val |-> TRUE, why |-> "callback"]
       ELSE /\ ret' = [op |-> "manual_fire", val |-> TRUE, why |-> "no_callback"]
            /\ UNCHANGED instances
    /\ UNCHANGED <<running, callbacks, now, execVars, coordVars, svcVars>>

\* the callback of a run returns
FireDone(jid) ==
    /\ instances[jid] > 0
    /\ instances' = [instances EXCEPT ![jid] = @ - 1]
    /\ ret' = [op |-> "fire_done", val |-> TRUE, why |-> jid[1]]
    /\ UNCHANGED <<running, jobs, callbacks, now, execVars, coordVars, svcVars>>

\* fire handlers without the except clause
HandlerCatches_m == FALSE

\* _execute_scheduled_task and _execute_manual_task wrap the call of the
\* callback in try / except Exception and log what they catch
HandlerCatches == TRUE

\* the callback of a run raises: the run ends, and ret.val tells whether the
\* handler returned normally (TRUE) or let the exception out to the engine
FireRaise(jid) ==
    /\ instances[jid] > 0
    /\ instances' = [instances EXCEPT ![jid] = @ - 1]
    /\ ret' = [op |-> "fire_raised", val |-> HandlerCatches, why |-> jid[1]]
    /\ UNCHANGED <<running, jobs, callbacks, now, execVars, coordVars, svcVars>>

\* a cleanup that looks at next_run_time alone
IsManualJob_m(jid) == TRUE

\* cleanup_completed_jobs, line 335: job.id.startswith('manual_')
IsManualJob(jid) == jid[1] = "manual"

\* cleanup_completed_jobs (lines 327-343): every job of get_jobs() that is a
\* one-shot job with next_run_time None is removed.  Reading next_run_time
\* of a job that is still pending in a stopped engine raises; the except
\* clause ends the loop, after the removals made so far.
CleanupCompletedJobs ==
    LET done   == {j \in DOMAIN jobs : IsManualJob(j) /\ jobs[j].next_run_time = None}
        raised == \E j \in DOMAIN jobs : IsManualJob(j) /\ jobs[j].next_run_time = Unset
    IN  /\ \E gone \in SUBSET done :
              /\ ~raised => gone = done
              /\ jobs' = [j \in (DOMAIN jobs) \ gone |-> jobs[j]]
        /\ ret' = [op |-> "cleanup", val |-> ~raised, why |-> "cleanup"]
        /\ UNCHANGED <<running, callbacks, instances, now, execVars, coordVars, svcVars>>

Tick ==
    /\ now < MaxTime
    /\ now' = now + 1
    /\ UNCHANGED <<schedVars, execVars, coordVars, svcVars>>

Next ==
    \/ Start
    \/ \E t \in SchedTasks, cb \in Callbacks : AddTask(t, cb)
    \/ \E id \in TaskIds : RemoveTask(id)
    \/ \E t \in SchedTasks, cb \in Callbacks : UpdateTask(t, cb)
    \/ \E id \in TaskIds : PauseTask(id)
    \/ \E id \in TaskIds : ResumeTask(id)
    \/ \E id \in TaskIds : CronFire(id)
    \/ \E jid \in TaskJobIds : FireDone(jid)

Spec == Init /\ [][Next]_vars

NextManual ==
    \/ Start
    \/ \E t \in SchedTasks, cb \in Callbacks : AddTask(t, cb)
    \/ \E id \in TaskIds : RemoveTask(id)
    \/ \E t \in SchedTasks, cb \in Callbacks : UpdateTask(t, cb)
    \/ \E id \in TaskIds : PauseTask(id)
    \/ \E id \in TaskIds : ResumeTask(id)
    \/ \E id \in TaskIds : CronFire(id)
    \/ \E id \in TaskIds, cb \in Callbacks : ExecuteNow(id, cb)
    \/ \E jid \in ManualJobIds : ManualFire(jid)
    \/ \E jid \in JobIds : FireDone(jid)
    \/ Tick

SpecManual == Init /\ [][NextManual]_vars

\* an active task with a five-field cron expression
HourlyTask(id) == [id |-> id, status |-> ACTIVE, cron_expression |-> CronFive,
                   timezone |-> None]

\* time passes while the engine is on time: it wakes up at the run date of
\* its next job, so no one-shot job of a running engine is left overdue
TimelyTick ==
    /\ \A jid \in ManualJobsIn(jobs) :
           (running /\ jobs[jid].next_run_time = NextSet)
              => now < jobs[jid].trigger.run_date
    /\ Tick

\* manual executions as the coordinator requests them, with its callback,
\* on an engine that is on time: a due one-shot job is fired, a callback
\* that was called ends, and the clock advances
NextManualLive ==
    \/ Start
    \/ \E id \in TaskIds : AddTask(HourlyTask(id), "_task_callback")
    \/ \E id \in TaskIds : ExecuteNow(id, "_task_callback")
    \/ \E jid \in ManualJobIds : ManualFire(jid)
    \/ \E jid \in ManualJobIds : FireDone(jid)
    \/ TimelyTick

SpecManualLive ==
    /\ Init
    /\ [][NextManualLive]_vars
    /\ \A jid \in ManualJobIds : WF_vars(ManualFire(jid))
    /\ \A jid \in ManualJobIds : WF_vars(FireDone(jid))
    /\ WF_vars(TimelyTick)

\* the fires of recurring and one-shot jobs, callbacks that return or raise,
\* pauses, and the periodic cleanup of run_forever
NextUpkeep ==
    \/ Start
    \/ \E id \in TaskIds : AddTask(HourlyTask(id), "_task_callback")
    \/ \E id \in TaskIds : PauseTask(id)
    \/ \E id \in TaskIds : CronFire(id)
    \/ \E id \in TaskIds : ExecuteNow(id, "_task_callback")
    \/ \E jid \in ManualJobIds : ManualFire(jid)
    \/ \E jid \in JobIds : FireDone(jid)
    \/ \E jid \in JobIds : FireRaise(jid)
    \/ CleanupCompletedJobs
    \/ Tick

SpecUpkeep == Init /\ [][NextUpkeep]_vars

\* runs in flight for a task id, by origin
RunningCron(id)   == instances[TaskJobId(id)]
RunningManual(id) == Cardinality({j \in ManualRunning : j[2] = id})

----------------------------------------------------------------------------
(* Task Executor: execute_task, with execute_query inside its SQL step      *)

MaxClock     == 4      \* the clock of an execution runs from 0 to MaxClock
QueryTimeout == 2      \* export.query_timeout, scaled down to model seconds
MaxRows      == 1      \* rows in a result set: 0..MaxRows


RUNNING   == "running"
SUCCESS   == "success"
FAILED    == "failed"
CANCELLED == "cancelled"
Terminal  == {SUCCESS, FAILED, CANCELLED}

PyTrue  == "True"
PyFalse == "False"

SQL    == "sql"
SCRIPT == "script"

\* the ExportTask fields execute_task reads.  data_source: the relationship
\* is None ("missing"), or names a source that is or is not in the
\* connection cache.  content: sql_content, or script_path and
\* script_function, is present.
ExecTasks == [status : {ACTIVE, INACTIVE},
              data_source : {"registered", "unregistered", "missing"},
              execution_type : {SQL, SCRIPT, None},
              content : BOOLEAN,
              export_methods : {{}, {"dingtalk"}, {"dingtalk", "email"}}]

Triggers == {"cron", "manual"}

\* ExecutionLog(...): the constructor sets start_time; the column defaults of
\* the other fields are applied only when the row is inserted
NewLog(trig, t) ==
    [status |-> RUNNING, triggered_by |-> trig,
     start_time |-> t, end_time |-> Null, duration |-> Null,
     rows_affected |-> Null, output_file_path |-> None, file_size |-> Null,
     error_message |-> None, error_traceback |-> None, export_results |-> None,
     dingtalk_sent |-> None, email_sent |-> None]

\* mark_success that computes the duration only when none was recorded
MarkSuccess_m(l, t, rows, path, size) ==
    [l EXCEPT !.status = SUCCESS,
              !.end_time = t,
              !.duration = IF l.duration = Null THEN t - l.start_time ELSE l.duration,
              !.rows_affected = IF rows # Null THEN rows ELSE @,
              !.output_file_path = IF path # None THEN path ELSE @,
              !.file_size = IF size # Null THEN size ELSE @]

MarkSuccess(l, t, rows, path, size) ==
    [l EXCEPT !.status = SUCCESS,
              !.end_time = t,
              !.duration = IF l.start_time # Null THEN t - l.start_time ELSE @,
              !.rows_affected = IF rows # Null THEN rows ELSE @,
              !.output_file_path = IF path # None THEN path ELSE @,
              !.file_size = IF size # Null THEN size ELSE @]

MarkFailed(l, t, msg) ==
    [l EXCEPT !.status = FAILED,
              !.end_time = t,
              !.duration = IF l.start_time # Null THEN t - l.start_time ELSE @,
              !.error_message = msg,
              !.error_traceback = <<"Traceback", msg>>]

\* a handler structure in which the notification try block is missing
Catch_m(where) == IF where = "notify" THEN "raised" ELSE "except"

\* where an Exception raised inside execute_task goes: the body of the try
\* block is handled by the except clause (line 73), the failure notification
\* has a try block of its own (lines 80-89)
Catch(where) == IF where = "notify" THEN "swallowed" ELSE "except"

NoData == [kind |-> None, rows |-> Null]
NewEnv == [step_start |-> Null, step_duration |-> Null, data |-> NoData,
           results |-> None, notify |-> None, returned |-> None]

\* the except clause of execute_task up to mark_failed
Fail(msg) ==
    /\ log' = MarkFailed(log, now, msg)
    /\ pc' = IF Catch("body") = "except" THEN "notify" ELSE "raised"

ExecuteTask(t, trig) ==
    /\ pc = "idle"
    /\ task' = t
    /\ log' = NewLog(trig, now)
    /\ env' = NewEnv
    /\ pc' = "check"
    /\ UNCHANGED <<schedVars, coordVars, svcVars, now, query>>

\* lines 39-54 and the first lines of _execute_sql_task / _execute_script_task:
\* the checks, then the query is submitted to the one-worker pool or the
\* script function is loaded and called
Check ==
    /\ pc = "check"
    /\ IF ~IsActive(task) THEN Fail("task not active") /\ UNCHANGED <<env, query>>
       ELSE IF task.data_source = "missing"
       THEN Fail("NoneType has no attribute name") /\ UNCHANGED <<env, query>>
       ELSE IF task.data_source = "unregistered"
       THEN Fail("data source not registered") /\ UNCHANGED <<env, query>>
       ELSE IF task.execution_type = SQL
       THEN IF ~task.content
            THEN Fail("sql content empty") /\ UNCHANGED <<env, query>>
            ELSE /\ env' = [env EXCEPT !.step_start = now]
                 /\ query' = [driver |-> "running", call |-> "waiting",
                              t0 |-> now, timeout |-> QueryTimeout]
                 /\ pc' = "sql"
                 /\ UNCHANGED log
       ELSE IF task.execution_type = SCRIPT
       THEN IF ~task.content
            THEN Fail("script reference empty") /\ UNCHANGED <<env, query>>
            ELSE \/ Fail("script cannot be loaded") /\ UNCHANGED <<env, query>>
                 \/ /\ env' = [env EXCEPT !.step_start = now]
                    /\ pc' = "script"
                    /\ UNCHANGED <<log, query>>
       ELSE Fail("unsupported execution type") /\ UNCHANGED <<env, query>>
    /\ UNCHANGED <<schedVars, coordVars, svcVars, now, task>>

\* the worker thread of the pool: pd.read_sql returns a frame or raises
DriverReturns(ok, rows) ==
    /\ pc = "sql"
    /\ query.driver = "running"
    /\ query' = [query EXCEPT !.driver = IF ok THEN "done" ELSE "failed"]
    /\ env' = [env EXCEPT !.data = IF ok THEN [kind |-> "df", rows |-> rows] ELSE NoData]
    /\ UNCHANGED <<schedVars, coordVars, svcVars, now, pc, task, log>>

\* future.result(timeout) returns the frame; _execute_sql_task records the
\* duration of the step in the log (lines 119-127)
QueryResult ==
    /\ pc = "sql"
    /\ query.call = "waiting"
    /\ query.driver = "done"
    /\ query' = [query EXCEPT !.call = "returned"]
    /\ env' = [env EXCEPT !.step_duration = now - env.step_start]
    /\ log' = [log EXCEPT !.duration = now - env.step_start]
    /\ pc' = "export"
    /\ UNCHANGED <<schedVars, coordVars, svcVars, now, task>>

\* future.result(timeout) re-raises the driver's exception
QueryError ==
    /\ pc = "sql"
    /\ query.call = "waiting"
    /\ query.driver = "failed"
    /\ query' = [query EXCEPT !.call = "raised_error"]
    /\ Fail("query failed")
    /\ UNCHANGED <<schedVars, coordVars, svcVars, now, task, env>>

\* future.result(timeout) raises FutureTimeoutError; TimeoutError is raised
\* inside the with block, whose exit is executor.shutdown(wait=True)
QueryTimedOut ==
    /\ pc = "sql"
    /\ query.call = "waiting"
    /\ query.driver = "running"
    /\ now - query.t0 >= query.timeout
    /\ query' = [query EXCEPT !.call = "draining"]
    /\ UNCHANGED <<schedVars, coordVars, svcVars, now, pc, task, log, env>>

\* the worker thread has finished: shutdown returns and TimeoutError reaches
\* the caller of execute_query
QueryDrained ==
    /\ pc = "sql"
    /\ query.call = "draining"
    /\ query.driver # "running"
    /\ query' = [query EXCEPT !.call = "raised_timeout"]
    /\ Fail("query timeout")
    /\ UNCHANGED <<schedVars, coordVars, svcVars, now, task, env>>

\* what a script function can return: a frame, a mapping of frames, a
\* mapping with a value that is no frame, anything else (a string)
ScriptKinds == {"df", "dict", "dict_other", "other"}

\* a script step that accepts whatever the function returns
ValidResult_m(kind) == TRUE

\* lines 166-174: isinstance(result, pd.DataFrame), or a dict whose values
\* are all frames
ValidResult(kind) == kind \in {"df", "dict"}

\* the script function returns (lines 158-174)
ScriptReturns(kind, rows) ==
    /\ pc = "script"
    /\ env' = [env EXCEPT !.step_duration = now - env.step_start,
                          !.returned = kind,
                          !.data = IF ValidResult(kind)
                                   THEN [kind |-> kind, rows |-> rows] ELSE NoData]
    /\ IF ValidResult(kind)
       THEN /\ log' = [log EXCEPT !.duration = now - env.step_start]
            /\ pc' = "export"
       ELSE /\ log' = MarkFailed([log EXCEPT !.duration = now - env.step_start],
                                 now, "script must return a frame or a mapping of frames")
            /\ pc' = IF Catch("body") = "except" THEN "notify" ELSE "raised"
    /\ UNCHANGED <<schedVars, coordVars, svcVars, now, task, query>>

ScriptRaises ==
    /\ pc = "script"
    /\ Fail("script raised")
    /\ UNCHANGED <<schedVars, coordVars, svcVars, now, task, query, env>>

\* _export_data: export_data / export_multiple_datasets never raise; they
\* write the file or not, and each notification of the task's export methods
\* is sent or not
Export(file, ding, mail) ==
    /\ pc = "export"
    /\ ding => "dingtalk" \in task.export_methods
    /\ mail => "email" \in task.export_methods
    /\ (env.data.kind = "dict" /\ ~file) => (~ding /\ ~mail)
    /\ log' = [log EXCEPT
                 !.output_file_path = IF file THEN "file.xlsx" ELSE @,
                 !.file_size = IF file THEN 1 ELSE @,
                 !.rows_affected = IF file THEN env.data.rows ELSE @,
                 !.dingtalk_sent = IF ding THEN PyTrue ELSE @,
                 !.email_sent = IF mail THEN PyTrue ELSE @]
    /\ env' = [env EXCEPT !.results =
                 [file_path |-> IF file THEN "file.xlsx" ELSE None,
                  file_size |-> IF file THEN 1 ELSE 0,
                  dingtalk_sent |-> IF ding THEN PyTrue ELSE PyFalse,
                  email_sent |-> IF mail THEN PyTrue ELSE PyFalse]]
    /\ pc' = "mark_success"
    /\ UNCHANGED <<schedVars, coordVars, svcVars, now, task, query>>

\* lines 60-64
DoMarkSuccess ==
    /\ pc = "mark_success"
    /\ log' = MarkSuccess(log, now,
                          IF env.data.kind = "df" THEN env.data.rows ELSE 0,
                          env.results.file_path, env.results.file_size)
    /\ pc' = "post_success"
    /\ UNCHANGED <<schedVars, coordVars, svcVars, now, task, query, env>>

\* lines 67-69, then return
PostSuccess ==
    /\ pc = "post_success"
    /\ log' = [log EXCEPT !.export_results = "str(export_results)",
                          !.dingtalk_sent = env.results.dingtalk_sent,
                          !.email_sent = env.results.email_sent]
    /\ pc' = "returned"
    /\ UNCHANGED <<schedVars, coordVars, svcVars, now, task, query, env>>

\* an except clause of the notification that records the notification's
\* own failure in the log
NotifyError_m(l, t) == MarkFailed(l, t, "notification failed")

\* lines 88-89: the exception of the notification is written to the
\* application log only
NotifyError(l, t) == l

\* lines 80-89: send_failure_notifications sets the flag of every channel it
\* sent to; its own exceptions, and any other exception, stay inside
Notify(ding, mail, raises) ==
    /\ pc = "notify"
    /\ ding => "dingtalk" \in task.export_methods
    /\ mail => "email" \in task.export_methods
    /\ log' = LET l == [log EXCEPT !.dingtalk_sent = IF ding THEN PyTrue ELSE @,
                                   !.email_sent = IF mail THEN PyTrue ELSE @]
              IN  IF raises THEN NotifyError(l, now) ELSE l
    /\ env' = [env EXCEPT !.notify = IF raises THEN "raised" ELSE "sent"]
    /\ pc' = IF raises /\ Catch("notify") # "swallowed" THEN "raised" ELSE "returned"
    /\ UNCHANGED <<schedVars, coordVars, svcVars, now, task, query>>

\* time passes while the executing thread is idle or blocked; a thread
\* waiting in future.result(timeout) is woken when the timeout elapses
ExecTick ==
    /\ now < MaxClock
    /\ pc \in {"idle", "sql", "script", "export", "notify"}
    /\ ~(pc = "sql" /\ query.call = "waiting" /\ now - query.t0 >= query.timeout)
    /\ now' = now + 1
    /\ UNCHANGED <<schedVars, execVars, coordVars, svcVars>>

NextExec ==
    \/ \E t \in ExecTasks, trig \in Triggers : ExecuteTask(t, trig)
    \/ Check
    \/ \E ok \in BOOLEAN, rows \in 0..MaxRows : DriverReturns(ok, rows)
    \/ QueryResult
    \/ QueryError
    \/ QueryTimedOut
    \/ QueryDrained
    \/ \E kind \in ScriptKinds, rows \in 0..MaxRows : ScriptReturns(kind, rows)
    \/ ScriptRaises
    \/ \E file, ding, mail \in BOOLEAN : Export(file, ding, mail)
    \/ DoMarkSuccess
    \/ PostSuccess
    \/ \E ding, mail, raises \in BOOLEAN : Notify(ding, mail, raises)
    \/ ExecTick

SpecExec == Init /\ [][NextExec]_vars

----------------------------------------------------------------------------
(* Scheduler operations step by step, called from several threads          *)

Idle(th)  == thr[th].pc = "idle"
AllIdle   == \A th \in Threads : Idle(th)

\* thread th enters an operation with the local state rec; every request in
\* flight for the same task id now overlaps with it
Enter(th, rec) ==
    thr' = [u \in Threads |->
              IF u = th
              THEN [rec EXCEPT !.overlap =
                       \E v \in Threads \ {th} : ~Idle(v) /\ thr[v].id = rec.id]
              ELSE IF ~Idle(u) /\ thr[u].id = rec.id
                   THEN [thr[u] EXCEPT !.overlap = TRUE]
                   ELSE thr[u]]

Goto(th, rec) == thr' = [thr EXCEPT ![th] = rec]
Leave(th)     == thr' = [thr EXCEPT ![th] = IdleThr]

\* function f restricted to the keys in ks
Only(f, ks) == [x \in (DOMAIN f) \cap ks |-> f[x]]

\* the recurring job and the callback registered for task id
PreOf(id) == [jobs |-> Only(jobs, {TaskJobId(id)}),
              callbacks |-> Only(callbacks, {TaskJobId(id)})]

\* remove_task with no except clause around the engine calls
RemoveCatch_m == "raised"

\* remove_task, lines 130-132: an exception of the engine (JobLookupError of
\* remove_job for a job that is no longer there) is logged and answered False
RemoveCatch == "return_false"

RemoveBegin(th, id) ==
    /\ Idle(th)
    /\ Enter(th, [IdleThr EXCEPT !.op = "remove", !.pc = "get_job", !.id = id,
                                 !.pre = PreOf(id)])
    /\ UNCHANGED <<schedVars, now, execVars, svcVars, engine, lock, table>>

\* line 117: self.scheduler.get_job(job_id)
RemoveGetJob(th) ==
    /\ thr[th].op = "remove" /\ thr[th].pc = "get_job"
    /\ IF TaskJobId(thr[th].id) \in DOMAIN jobs
       THEN /\ Goto(th, [thr[th] EXCEPT !.pc = "remove_job", !.saw = TRUE])
            /\ UNCHANGED ret
       ELSE /\ Leave(th)
            /\ ret' = [op |-> "remove", val |-> FALSE, why |-> "absent"]
    /\ UNCHANGED <<running, jobs, callbacks, instances, now, execVars, svcVars, engine, lock, table>>

\* line 118: self.scheduler.remove_job(job_id)
RemoveJob(th) ==
    LET jid == TaskJobId(thr[th].id)
    IN  /\ thr[th].op = "remove" /\ thr[th].pc = "remove_job"
        /\ IF jid \in DOMAIN jobs
           THEN /\ jobs' = Drop(jobs, jid)
                /\ Goto(th, [thr[th] EXCEPT !.pc = "del_cb"])
                /\ UNCHANGED ret
           ELSE /\ UNCHANGED jobs
                /\ IF RemoveCatch = "return_false"
                   THEN /\ Leave(th)
                        /\ ret' = [op |-> "remove", val |-> FALSE, why |-> "lookup_error"]
                   ELSE /\ Goto(th, [thr[th] EXCEPT !.pc = "raised"])
                        /\ ret' = [op |-> "remove", val |-> FALSE, why |-> "raised"]
        /\ UNCHANGED <<running, callbacks, instances, now, execVars, svcVars, engine, lock, table>>

\* lines 121-125
RemoveDelCb(th) ==
    LET jid == TaskJobId(thr[th].id)
    IN  /\ thr[th].op = "remove" /\ thr[th].pc = "del_cb"
        /\ callbacks' = IF jid \in DOMAIN callbacks THEN Drop(callbacks, jid)
                        ELSE callbacks
        /\ Leave(th)
        /\ ret' = [op |-> "remove", val |-> TRUE, why |-> "removed"]
        /\ UNCHANGED <<running, jobs, instances, now, execVars, svcVars, engine, lock, table>>

\* add_task called while no remove_task is in flight
QuietAddTask(t, cb) == AllIdle /\ AddTask(t, cb)

NextRemove ==
    \/ Start
    \/ \E t \in SchedTasks, cb \in Callbacks : QuietAddTask(t, cb)
    \/ \E th \in Threads, id \in TaskIds : RemoveBegin(th, id)
    \/ \E th \in Threads : RemoveGetJob(th)
    \/ \E th \in Threads : RemoveJob(th)
    \/ \E th \in Threads : RemoveDelCb(th)

SpecRemove == Init /\ [][NextRemove]_vars

----------------------------------------------------------------------------
(* start() and stop() step by step, with the fires of the engine            *)

\* a lock that never makes a thread wait
LockFree_m(l) == TRUE

\* with self._lock: the lock can be taken when no thread holds it
LockFree(l) == l = 0

\* a shutdown that does not wait for the runs in flight
Drained_m == TRUE

\* self.scheduler.shutdown(wait=True) returns when the executor's pool has
\* no run in flight
Drained == \A j \in JobIds : instances[j] = 0

EngineRunning == engine.state = "running"

\* start() or stop() is called on thread th
LifeBegin(th, op) ==
    /\ Idle(th)
    /\ Goto(th, [IdleThr EXCEPT !.op = op, !.pc = "acquire"])
    /\ UNCHANGED <<schedVars, now, execVars, svcVars, engine, lock, table>>

\* with self._lock:
LifeAcquire(th) ==
    /\ thr[th].op \in {"start", "stop"} /\ thr[th].pc = "acquire"
    /\ LockFree(lock)
    /\ lock' = th
    /\ Goto(th, [thr[th] EXCEPT !.pc = "check"])
    /\ UNCHANGED <<schedVars, now, execVars, svcVars, engine, table>>

\* start, line 45: if not self._running
StartCheck(th) ==
    /\ thr[th].op = "start" /\ thr[th].pc = "check"
    /\ IF running
       THEN /\ Leave(th)
            /\ lock' = 0
            /\ ret' = [op |-> "start", val |-> TRUE, why |-> "already_running"]
       ELSE /\ Goto(th, [thr[th] EXCEPT !.pc = "engine_start"])
            /\ UNCHANGED <<lock, ret>>
    /\ UNCHANGED <<running, jobs, callbacks, instances, now, execVars, svcVars, engine, table>>

\* start, line 46: self.scheduler.start(); an engine that is running refuses
\* (SchedulerAlreadyRunningError leaves start through the with block)
StartEngine(th) ==
    /\ thr[th].op = "start" /\ thr[th].pc = "engine_start"
    /\ IF EngineRunning
       THEN /\ engine' = [engine EXCEPT !.fault = "SchedulerAlreadyRunningError"]
            /\ Leave(th)
            /\ lock' = 0
            /\ ret' = [op |-> "start", val |-> FALSE, why |-> "raised"]
            /\ UNCHANGED jobs
       ELSE /\ engine' = [engine EXCEPT !.state = "running"]
            /\ jobs' = [j \in DOMAIN jobs |->
                          IF jobs[j].next_run_time = Unset
                          THEN [jobs[j] EXCEPT !.next_run_time = NextSet]
                          ELSE jobs[j]]
            /\ Goto(th, [thr[th] EXCEPT !.pc = "set_running"])
            /\ UNCHANGED <<lock, ret>>
    /\ UNCHANGED <<running, callbacks, instances, now, execVars, svcVars, table>>

\* start, line 47, and the end of the with block
StartSet(th) ==
    /\ thr[th].op = "start" /\ thr[th].pc = "set_running"
    /\ running' = TRUE
    /\ lock' = 0
    /\ Leave(th)
    /\ ret' = [op |-> "start", val |-> TRUE, why |-> "started"]
    /\ UNCHANGED <<jobs, callbacks, instances, now, execVars, svcVars, engine, table>>

\* stop, line 53: if self._running
StopCheck(th) ==
    /\ thr[th].op = "stop" /\ thr[th].pc = "check"
    /\ IF ~running
       THEN /\ Leave(th)
            /\ lock' = 0
            /\ ret' = [op |-> "stop", val |-> TRUE, why |-> "not_running"]
       ELSE /\ Goto(th, [thr[th] EXCEPT !.pc = "shutdown"])
            /\ UNCHANGED <<lock, ret>>
    /\ UNCHANGED <<running, jobs, callbacks, instances, now, execVars, svcVars, engine, table>>

\* stop, line 54: self.scheduler.shutdown(wait=True) is entered: the engine
\* is stopped and starts no further run; an engine that is not running
\* refuses (SchedulerNotRunningError)
StopShutdown(th) ==
    /\ thr[th].op = "stop" /\ thr[th].pc = "shutdown"
    /\ IF ~EngineRunning
       THEN /\ engine' = [engine EXCEPT !.fault = "SchedulerNotRunningError"]
            /\ Leave(th)
            /\ lock' = 0
            /\ ret' = [op |-> "stop", val |-> FALSE, why |-> "raised"]
       ELSE /\ engine' = [engine EXCEPT !.state = "stopped"]
            /\ Goto(th, [thr[th] EXCEPT !.pc = "drain", !.saw = ~Drained])
            /\ UNCHANGED <<lock, ret>>
    /\ UNCHANGED <<running, jobs, callbacks, instances, now, execVars, svcVars, table>>

\* shutdown returns: no run is in flight and the engine's memory job store
\* has dropped its jobs; lines 55-56 and the end of the with block
StopDrained(th) ==
    /\ thr[th].op = "stop" /\ thr[th].pc = "drain"
    /\ Drained
    /\ jobs' = <<>>
    /\ running' = FALSE
    /\ lock' = 0
    /\ Leave(th)
    /\ ret' = [op |-> "stop", val |-> TRUE,
               why |-> IF thr[th].saw THEN "drained" ELSE "stopped"]
    /\ UNCHANGED <<callbacks, instances, now, execVars, svcVars, engine, table>>

\* add_task while no shutdown is draining (the engine holds the job store's
\* lock during the drain); the job is pending unless the engine is running
LifeAddTask(t, cb) ==
    /\ \A th \in Threads : thr[th].pc # "drain"
    /\ LET r == AddTaskSt(Sched, EngineRunning, t, cb)
       IN  /\ jobs' = r.jobs
           /\ callbacks' = r.callbacks
           /\ ret' = [op |-> "add", val |-> r.val, why |-> r.why]
    /\ UNCHANGED <<running, instances, now, execVars, coordVars, svcVars>>

\* a fire of the recurring job of task id is due in a running engine
EngineFire(id) ==
    LET jid == TaskJobId(id)
    IN  /\ EngineRunning
        /\ jid \in DOMAIN jobs
        /\ jobs[jid].next_run_time = NextSet
        /\ IF ~CanSubmit(instances[jid], jobs[jid])
           THEN /\ ret' = [op |-> "cron_fire", val |-> FALSE, why |-> "max_instances"]
                /\ UNCHANGED instances
           ELSE IF jid \in DOMAIN callbacks
           THEN /\ instances' = [instances EXCEPT ![jid] = @ + 1]
                /\ ret' = [op |-> "cron_fire", val |-> TRUE, why |-> "callback"]
           ELSE /\ ret' = [op |-> "cron_fire", val |-> TRUE, why |-> "no_callback"]
                /\ UNCHANGED instances
        /\ UNCHANGED <<running, jobs, callbacks, now, execVars, coordVars, svcVars>>

NextLife ==
    \/ \E th \in Threads, op \in {"start", "stop"} : LifeBegin(th, op)
    \/ \E th \in Threads : LifeAcquire(th)
    \/ \E th \in Threads : StartCheck(th)
    \/ \E th \in Threads : StartEngine(th)
    \/ \E th \in Threads : StartSet(th)
    \/ \E th \in Threads : StopCheck(th)
    \/ \E th \in Threads : StopShutdown(th)
    \/ \E th \in Threads : StopDrained(th)
    \/ \E t \in ListTasks, cb \in Callbacks : LifeAddTask(t, cb)
    \/ \E id \in TaskIds : EngineFire(id)
    \/ \E jid \in TaskJobIds : FireDone(jid)

SpecLife == Init /\ [][NextLife]_vars

----------------------------------------------------------------------------
(* Scheduler process: the task table and the reload-task requests          *)

\* what the API process commits to a row of the task table
RowValues == [status : {ACTIVE, INACTIVE},
              cron_expression : {CronFive, CronSix, CronBad},
              timezone : Timezones, notified : {FALSE}]

RowExists(r) == r.status # None

\* the ExportTask loaded from row r of task id
RowTask(id, r) == [id |-> id, status |-> r.status,
                   cron_expression |-> r.cron_expression, timezone |-> r.timezone]

\* session.query(ExportTask).filter(status == ACTIVE,
\*                                  cron_expression.isnot(None)).all()
ActiveTasks ==
    SelectSeq([i \in 1..MaxTasks |-> RowTask(i, table[i])],
              LAMBDA t : t.status = ACTIVE /\ t.cron_expression # None)

\* add_task(task, cb) for every task of the list ts, in order
RECURSIVE AddEach(_, _, _, _)
AddEach(s, run, ts, cb) ==
    IF ts = <<>> THEN s
    ELSE LET r == AddTaskSt(s, run, Head(ts), cb)
         IN  AddEach([jobs |-> r.jobs, callbacks |-> r.callbacks], run, Tail(ts), cb)

\* TaskSchedulerApp.start: the service starts the Task Scheduler, the active
\* tasks are scheduled with _task_callback, then the HTTP thread serves
AppStart ==
    /\ ~running
    /\ running' = TRUE
    /\ engine' = [engine EXCEPT !.state = "running"]
    /\ LET s == AddEach(Sched, TRUE, ActiveTasks, "_task_callback")
       IN  jobs' = s.jobs /\ callbacks' = s.callbacks
    /\ ret' = [op |-> "app_start", val |-> TRUE, why |-> "started"]
    /\ UNCHANGED <<instances, now, execVars, svcVars, lock, thr, table>>

\* the API process commits a created, updated or deleted row
CommitRow(id, r) ==
    /\ table' = [table EXCEPT ![id] = r]
    /\ UNCHANGED <<schedVars, now, execVars, svcVars, engine, lock, thr>>

\* /reload-task arrives: a thread of the HTTP server handles it
ReloadBegin(th, id, action) ==
    /\ running
    /\ Idle(th)
    /\ Enter(th, [IdleThr EXCEPT !.op = action, !.id = id, !.pre = PreOf(id),
                                 !.pc = IF action = "delete" THEN "remove" ELSE "read"])
    /\ table' = [table EXCEPT ![id].notified = TRUE]
    /\ UNCHANGED <<schedVars, now, execVars, svcVars, engine, lock>>

\* _remove_task_from_scheduler
ReloadDelete(th) ==
    /\ thr[th].op = "delete" /\ thr[th].pc = "remove"
    /\ LET r == RemoveTaskSt(Sched, thr[th].id)
       IN  /\ jobs' = r.jobs
           /\ callbacks' = r.callbacks
           /\ ret' = [op |-> "reload", val |-> r.val, why |-> r.why]
    /\ Leave(th)
    /\ UNCHANGED <<running, instances, now, execVars, svcVars, engine, lock, table>>

\* _reload_single_task, lines 130-135: the row is read; no row, answer False
ReloadRead(th) ==
    /\ thr[th].op = "update" /\ thr[th].pc = "read"
    /\ IF RowExists(table[thr[th].id])
       THEN /\ Goto(th, [thr[th] EXCEPT !.pc = "remove",
                           !.snap = [table[thr[th].id] EXCEPT !.notified = TRUE]])
            /\ UNCHANGED ret
       ELSE /\ Leave(th)
            /\ ret' = [op |-> "reload", val |-> FALSE, why |-> "no_row"]
    /\ UNCHANGED <<running, jobs, callbacks, instances, now, execVars, svcVars, engine, lock, table>>

\* line 138, then the test of line 141
ReloadRemove(th) ==
    /\ thr[th].op = "update" /\ thr[th].pc = "remove"
    /\ LET r == RemoveTaskSt(Sched, thr[th].id)
       IN  jobs' = r.jobs /\ callbacks' = r.callbacks
    /\ IF thr[th].snap.status = ACTIVE /\ Truthy(thr[th].snap.cron_expression)
       THEN /\ Goto(th, [thr[th] EXCEPT !.pc = "add"])
            /\ UNCHANGED ret
       ELSE /\ Leave(th)
            /\ ret' = [op |-> "reload", val |-> TRUE, why |-> "unscheduled"]
    /\ UNCHANGED <<running, instances, now, execVars, svcVars, engine, lock, table>>

\* lines 142-147
ReloadAdd(th) ==
    /\ thr[th].op = "update" /\ thr[th].pc = "add"
    /\ LET r == AddTaskSt(Sched, running, RowTask(thr[th].id, thr[th].snap),
                          "_task_callback")
       IN  /\ jobs' = r.jobs
           /\ callbacks' = r.callbacks
           /\ ret' = [op |-> "reload", val |-> r.val, why |-> r.why]
    /\ Leave(th)
    /\ UNCHANGED <<running, instances, now, execVars, svcVars, engine, lock, table>>

NextReload ==
    \/ AppStart
    \/ \E id \in TaskIds, r \in RowValues \cup {[NoRow EXCEPT !.notified = FALSE]} :
          CommitRow(id, r)
    \/ \E th \in Threads, id \in TaskIds, action \in {"update", "delete"} :
          ReloadBegin(th, id, action)
    \/ \E th \in Threads : ReloadDelete(th)
    \/ \E th \in Threads : ReloadRead(th)
    \/ \E th \in Threads : ReloadRemove(th)
    \/ \E th \in Threads : ReloadAdd(th)

SpecReload == Init /\ [][NextReload]_vars

\* the create and update requests alone
NextReloadRace ==
    \/ AppStart
    \/ \E id \in TaskIds, r \in RowValues : CommitRow(id, r)
    \/ \E th \in Threads, id \in TaskIds : ReloadBegin(th, id, "update")
    \/ \E th \in Threads : ReloadRead(th)
    \/ \E th \in Threads : ReloadRemove(th)
    \/ \E th \in Threads : ReloadAdd(th)

SpecReloadRace == Init /\ [][NextReloadRace]_vars

----------------------------------------------------------------------------
(* reschedule_all_tasks and the reload-all request                          *)

\* a reschedule that adds to the jobs that are there
ClearRecurring_m(js) == js

\* reschedule_all_tasks, lines 350-353: every job whose id starts with task_
\* is removed from the engine; the callback table is not touched
ClearRecurring(js) == Only(js, (DOMAIN js) \ TaskJobIds)

\* reschedule_all_tasks: clear, then add_task(task) without a callback for
\* every task of the list that is active and has a cron expression
RescheduleAllSt(s, run, ts) ==
    AddEach([jobs |-> ClearRecurring(s.jobs), callbacks |-> s.callbacks], run,
            SelectSeq(ts, LAMBDA t : IsActive(t) /\ Truthy(t.cron_expression)),
            None)

\* a reload-all that trusts add_task to register the callbacks
RegisterMissing_m(cbs, ts) == cbs

\* _reload_all_tasks, lines 180-183: _task_callback is registered for every
\* task of the list that has no callback
RegisterMissing(cbs, ts) ==
    LET missing == {TaskJobId(ts[k].id) : k \in 1..Len(ts)} \ DOMAIN cbs
    IN  [j \in (DOMAIN cbs) \cup missing |->
            IF j \in missing THEN "_task_callback" ELSE cbs[j]]

\* the task ids that have a recurring job / whose row is schedulable
ScheduledIds(js) == {id \in TaskIds : TaskJobId(id) \in DOMAIN js}
SchedulableIds ==
    {id \in TaskIds : /\ table[id].status # None
                      /\ IsActive(table[id]) /\ Truthy(table[id].cron_expression)
                      /\ ValidateCron(table[id].cron_expression)
                      /\ FromCrontabOK(table[id].cron_expression)}

\* /reload-all: _reload_all_tasks
ReloadAll ==
    /\ running
    /\ LET ts == ActiveTasks
           s  == RescheduleAllSt(Sched, running, ts)
       IN  /\ jobs' = s.jobs
           /\ callbacks' = RegisterMissing(s.callbacks, ts)
    /\ ret' = [op |-> "reload_all", val |-> TRUE,
               why |-> IF ScheduledIds(jobs) # SchedulableIds THEN "drift"
                       ELSE "in_sync"]
    /\ UNCHANGED <<running, instances, now, execVars, svcVars, engine, lock, thr, table>>

NextReloadAll ==
    \/ AppStart
    \/ \E id \in TaskIds, r \in RowValues \cup {[NoRow EXCEPT !.notified = FALSE]} :
          CommitRow(id, r)
    \/ \E id \in TaskIds : RemoveTask(id)
    \/ \E id \in TaskIds : PauseTask(id)
    \/ \E id \in TaskIds : ResumeTask(id)
    \/ ReloadAll

SpecReloadAll == Init /\ [][NextReloadAll]_vars

\* the lists given to reschedule_all_tasks: at most one task per id
TaskLists ==
    {ts \in UNION {[1..n -> ListTasks] : n \in 0..MaxTasks} :
        \A i, k \in 1..Len(ts) : ts[i].id = ts[k].id => i = k}

RescheduleAll(ts) ==
    /\ LET s == RescheduleAllSt(Sched, running, ts)
       IN  /\ jobs' = s.jobs
           /\ callbacks' = s.callbacks
           /\ ret' = [op |-> "reschedule_all", val |-> TRUE,
                      why |-> IF ScheduledIds(jobs) \ ScheduledIds(s.jobs) # {}
                              THEN "dropped" ELSE "kept"]
    /\ UNCHANGED <<running, instances, now, execVars, coordVars, svcVars>>

NextReschedule ==
    \/ Start
    \/ \E t \in ListTasks, cb \in Callbacks : AddTask(t, cb)
    \/ \E ts \in TaskLists : RescheduleAll(ts)
    \/ \E id \in TaskIds : PauseTask(id)
    \/ \E id \in TaskIds : ResumeTask(id)
    \/ \E id \in TaskIds, cb \in Callbacks : ExecuteNow(id, cb)

SpecReschedule == Init /\ [][NextReschedule]_vars

\* reschedule_all_tasks step by step.  Line 350: get_jobs() returns the jobs
\* of this moment; saw: the recurring jobs among them that are still to be
\* removed; snap: the list of tasks the call was given
ReschedBegin(th, ts) ==
    /\ Idle(th)
    /\ Enter(th, [IdleThr EXCEPT !.op = "reschedule", !.pc = "clear", !.snap = ts,
                                 !.saw = TaskJobIds \cap DOMAIN jobs])
    /\ UNCHANGED <<schedVars, now, execVars, svcVars, engine, lock, table>>

\* lines 351-353: remove_job for the next job of the list; it raises
\* JobLookupError when the job has left the store meanwhile, and nothing in
\* reschedule_all_tasks catches it
ReschedRemoveJob(th, jid) ==
    /\ thr[th].op = "reschedule" /\ thr[th].pc = "clear"
    /\ jid \in thr[th].saw
    /\ IF jid \in DOMAIN jobs
       THEN /\ jobs' = Drop(jobs, jid)
            /\ Goto(th, [thr[th] EXCEPT !.saw = @ \ {jid}])
            /\ UNCHANGED ret
       ELSE /\ UNCHANGED jobs
            /\ Leave(th)
            /\ ret' = [op |-> "reschedule_all", val |-> FALSE, why |-> "raised"]
    /\ UNCHANGED <<running, callbacks, instances, now, execVars, svcVars, engine, lock, table>>

\* lines 355-362: add_task(task) for the tasks of the list
ReschedAdd(th) ==
    /\ thr[th].op = "reschedule" /\ thr[th].pc = "clear"
    /\ thr[th].saw = {}
    /\ LET s == AddEach(Sched, running,
                        SelectSeq(thr[th].snap,
                                  LAMBDA t : IsActive(t) /\ Truthy(t.cron_expression)),
                        None)
       IN  /\ jobs' = s.jobs
           /\ callbacks' = s.callbacks
    /\ Leave(th)
    /\ ret' = [op |-> "reschedule_all", val |-> TRUE, why |-> "rescheduled"]
    /\ UNCHANGED <<running, instances, now, execVars, svcVars, engine, lock, table>>

\* add_task, remove_task, update_task and reschedule_all_tasks called from
\* several threads; remove_task and reschedule_all_tasks interleave between
\* their calls of the engine
NextRace ==
    \/ Start
    \/ \E id \in TaskIds, cb \in Callbacks : AddTask(HourlyTask(id), cb)
    \/ \E id \in TaskIds, cb \in Callbacks : UpdateTask(HourlyTask(id), cb)
    \/ \E th \in Threads, id \in TaskIds : RemoveBegin(th, id)
    \/ \E th \in Threads : RemoveGetJob(th)
    \/ \E th \in Threads : RemoveJob(th)
    \/ \E th \in Threads : RemoveDelCb(th)
    \/ \E th \in Threads, ts \in TaskLists : ReschedBegin(th, ts)
    \/ \E th \in Threads, jid \in TaskJobIds : ReschedRemoveJob(th, jid)
    \/ \E th \in Threads : ReschedAdd(th)

SpecRace == Init /\ [][NextRace]_vars

\* /reload-all step by step, handled by a thread of the HTTP server.
\* _reload_all_tasks, lines 170-174: the active tasks are read
ReloadAllBegin(th) ==
    /\ running
    /\ Idle(th)
    /\ Enter(th, [IdleThr EXCEPT !.op = "reload_all", !.pc = "get_jobs",
                                 !.snap = ActiveTasks])
    /\ UNCHANGED <<schedVars, now, execVars, svcVars, engine, lock, table>>

\* reschedule_all_tasks, line 350
ReloadAllGetJobs(th) ==
    /\ thr[th].op = "reload_all" /\ thr[th].pc = "get_jobs"
    /\ Goto(th, [thr[th] EXCEPT !.pc = "clear", !.saw = TaskJobIds \cap DOMAIN jobs])
    /\ UNCHANGED <<schedVars, now, execVars, svcVars, engine, lock, table>>

\* reschedule_all_tasks, lines 351-353; the JobLookupError of a job that has
\* left the store ends _reload_all_tasks in its except clause (lines 188-190)
ReloadAllRemoveJob(th, jid) ==
    /\ thr[th].op = "reload_all" /\ thr[th].pc = "clear"
    /\ jid \in thr[th].saw
    /\ IF jid \in DOMAIN jobs
       THEN /\ jobs' = Drop(jobs, jid)
            /\ Goto(th, [thr[th] EXCEPT !.saw = @ \ {jid}])
            /\ UNCHANGED ret
       ELSE /\ UNCHANGED jobs
            /\ Leave(th)
            /\ ret' = [op |-> "reload_all", val |-> FALSE, why |-> "raised"]
    /\ UNCHANGED <<running, callbacks, instances, now, execVars, svcVars, engine, lock, table>>

\* reschedule_all_tasks, lines 355-362, then _reload_all_tasks, lines 179-186
ReloadAllAdd(th) ==
    /\ thr[th].op = "reload_all" /\ thr[th].pc = "clear"
    /\ thr[th].saw = {}
    /\ LET s == AddEach(Sched, running, thr[th].snap, None)
       IN  /\ jobs' = s.jobs
           /\ callbacks' = RegisterMissing(s.callbacks, thr[th].snap)
    /\ Leave(th)
    /\ ret' = [op |-> "reload_all", val |-> TRUE, why |-> "reloaded"]
    /\ UNCHANGED <<running, instances, now, execVars, svcVars, engine, lock, table>>

\* reload-all requests next to the reload-task requests for updated rows
NextReloadAllRace ==
    \/ AppStart
    \/ \E id \in TaskIds, status \in {ACTIVE, INACTIVE} :
          CommitRow(id, [status |-> status, cron_expression |-> CronFive,
                         timezone |-> None, notified |-> FALSE])
    \/ \E th \in Threads, id \in TaskIds : ReloadBegin(th, id, "update")
    \/ \E th \in Threads : ReloadRead(th)
    \/ \E th \in Threads : ReloadRemove(th)
    \/ \E th \in Threads : ReloadAdd(th)
    \/ \E th \in Threads : ReloadAllBegin(th)
    \/ \E th \in Threads : ReloadAllGetJobs(th)
    \/ \E th \in Threads, jid \in TaskJobIds : ReloadAllRemoveJob(th, jid)
    \/ \E th \in Threads : ReloadAllAdd(th)

SpecReloadAllRace == Init /\ [][NextReloadAllRace]_vars

\* the five-field expressions the engine's trigger accepts
Schedulable(t) == Eligible(t) /\ ValidateCron(t.cron_expression)
                  /\ FromCrontabOK(t.cron_expression)

\* the recurring job of task id is the one of row r: scheduled iff the row
\* exists and is schedulable, with the row's cron expression and timezone
JobReflects(js, id, r) ==
    LET jid == TaskJobId(id)
        t   == RowTask(id, r)
    IN  IF RowExists(r) /\ Schedulable(t)
        THEN /\ jid \in DOMAIN js
             /\ js[jid].trigger.expr = t.cron_expression
             /\ js[jid].trigger.tz = EffectiveTz(t)
        ELSE jid \notin DOMAIN js

----------------------------------------------------------------------------
(* ConnectionManager: the registry of pooled engines                       *)

SourceNames == 1..MaxSources

\* the DataSource objects handed to the registry under one name: two
\* versions of its configuration
SourceConfigs == {"v1", "v2"}

\* an add_data_source that fills the maps whatever the probe says
Probed_m(ok) == TRUE

\* add_data_source, lines 41-50: the three stores follow the probe inside the
\* try block, so they are reached only when the probe did not raise
Probed(ok) == ok

\* add_data_source (lines 23-56): create_engine, probe, store; the exception
\* of a failed probe is logged and raised again, the engine just created is
\* dropped without dispose()
AddDataSourceSt(r, n, cfg, ok) ==
    LET h    == Len(r.handles) + 1
        made == Append(r.handles,
                       [name |-> n, state |-> IF ok THEN "live" ELSE "dropped"])
        done == [op |-> "add_data_source", name |-> n, raised |-> ~ok]
    IN  IF Probed(ok)
        THEN [engines |-> Put(r.engines, n, h),
              sessions |-> Put(r.sessions, n, h),
              cache |-> Put(r.cache, n, cfg),
              handles |-> made, last |-> done]
        ELSE [r EXCEPT !.handles = made, !.last = done]

\* remove_data_source (lines 58-65)
RemoveDataSourceSt(r, n) ==
    LET done == [op |-> "remove_data_source", name |-> n, raised |-> FALSE]
    IN  IF n \in DOMAIN r.engines
        THEN [engines |-> Only(r.engines, (DOMAIN r.engines) \ {n}),
              sessions |-> Only(r.sessions, (DOMAIN r.sessions) \ {n}),
              cache |-> Only(r.cache, (DOMAIN r.cache) \ {n}),
              handles |-> [r.handles EXCEPT ![r.engines[n]].state = "disposed"],
              last |-> done]
        ELSE [r EXCEPT !.last = done]

\* reload_data_source (lines 242-249)
ReloadDataSourceSt(r, n, cfg, ok) ==
    LET removed == IF n \in DOMAIN r.engines THEN RemoveDataSourceSt(r, n) ELSE r
    IN  [AddDataSourceSt(removed, n, cfg, ok) EXCEPT !.last.op = "reload_data_source"]

\* close_all (lines 221-232)
CloseAllSt(r) ==
    [engines |-> <<>>, sessions |-> <<>>, cache |-> <<>>,
     handles |-> [h \in DOMAIN r.handles |->
                    IF \E n \in DOMAIN r.engines : r.engines[n] = h
                    THEN [r.handles[h] EXCEPT !.state = "disposed"]
                    ELSE r.handles[h]],
     last |-> [op |-> "close_all", name |-> 0, raised |-> FALSE]]

RegFrame == UNCHANGED <<schedVars, now, execVars, coordVars, api, test, coord, loader, app>>

AddDataSource(n, cfg, ok) ==
    /\ Len(reg.handles) < MaxEngines
    /\ reg' = AddDataSourceSt(reg, n, cfg, ok)
    /\ RegFrame

RemoveDataSource(n) ==
    /\ reg' = RemoveDataSourceSt(reg, n)
    /\ RegFrame

ReloadDataSource(n, cfg, ok) ==
    /\ Len(reg.handles) < MaxEngines
    /\ reg' = ReloadDataSourceSt(reg, n, cfg, ok)
    /\ RegFrame

CloseAll ==
    /\ reg' = CloseAllSt(reg)
    /\ RegFrame

NextRegistry ==
    \/ \E n \in SourceNames, cfg \in SourceConfigs, ok \in BOOLEAN : AddDataSource(n, cfg, ok)
    \/ \E n \in SourceNames : RemoveDataSource(n)
    \/ \E n \in SourceNames, cfg \in SourceConfigs, ok \in BOOLEAN : ReloadDataSource(n, cfg, ok)
    \/ CloseAll

SpecRegistry == Init /\ [][NextRegistry]_vars

\* the engines made for name n that are live
LiveHandles(r, n) ==
    {h \in DOMAIN r.handles : r.handles[h].name = n /\ r.handles[h].state = "live"}

----------------------------------------------------------------------------
(* The API process: task mutations and the notification of the scheduler   *)

ApiOps == {"create", "update", "delete"}

\* the rows a task request writes
ApiRows == [status : {ACTIVE, INACTIVE}, cron_expression : {CronFive},
            timezone : {None}, notified : {FALSE}]

\* what becomes of requests.post in _notify (lines 136-158): the scheduler
\* answers success, answers a failure or another status, does not answer
\* within the timeout, or cannot be reached
NoteOutcomes == {"ok", "rejected", "timeout", "unreachable"}

\* db_manager.create_task / update_task / delete_task: the table after the
\* commit.  create inserts under a fresh id, update and delete need the row
DbCommits(tbl, op, id, r, valid) ==
    IF op = "create" THEN valid /\ ~RowExists(tbl[id])
    ELSE RowExists(tbl[id]) /\ (op = "update" => valid)

DbCommit(tbl, op, id, r) ==
    [tbl EXCEPT ![id] = IF op = "delete" THEN NoRow ELSE r]

\* a notification thread that undoes the task mutation when the scheduler
\* could not be told
NoteFailed_m(tbl, note) == [tbl EXCEPT ![note.id] = NoRow]

\* _notify, lines 147-158: every failure is printed, nothing else
NoteFailed(tbl, note) == tbl

\* the status of the response of the handlers (lines 467-480, 502-515,
\* 529-541)
ApiStatus(op, success) ==
    IF ~success THEN 400 ELSE IF op = "create" THEN 201 ELSE 200

ApiFrame == UNCHANGED <<schedVars, now, execVars, engine, lock, thr, reg, test, coord, loader, app>>

\* create_task / update_task / delete_task of the API (lines 446-544): the
\* service commits or fails; on success notify_scheduler starts a daemon
\* thread; the handler returns
ApiTask(op, id, r, valid) ==
    /\ Len(api.notes) < MaxNotes
    /\ LET success == DbCommits(table, op, id, r, valid)
       IN  /\ table' = IF success THEN DbCommit(table, op, id, r) ELSE table
           /\ api' = [api EXCEPT
                        !.req = [op |-> op, id |-> id],
                        !.response = [success |-> success,
                                      status |-> ApiStatus(op, success)],
                        !.notes = IF success
                                  THEN Append(@, [id |-> id, action |-> op])
                                  ELSE @]
    /\ ApiFrame

\* the thread of notification i ends
NoteDone(i, outcome) ==
    /\ i \in DOMAIN api.notes
    /\ api' = [api EXCEPT
                 !.notes = SubSeq(@, 1, i - 1) \o SubSeq(@, i + 1, Len(@)),
                 !.done = [id |-> api.notes[i].id, action |-> api.notes[i].action,
                           outcome |-> outcome]]
    /\ table' = IF outcome = "ok" THEN table ELSE NoteFailed(table, api.notes[i])
    /\ ApiFrame

NextApi ==
    \/ \E op \in ApiOps, id \in TaskIds, r \in ApiRows, valid \in BOOLEAN :
          ApiTask(op, id, r, valid)
    \/ \E i \in 1..MaxNotes, outcome \in NoteOutcomes : NoteDone(i, outcome)

SpecApi == Init /\ [][NextApi]_vars

----------------------------------------------------------------------------
(* TaskExecutor.test_task                                                  *)

\* the ExportTask fields test_task and validate_task read
TestTasks == [data_source : {"registered", "unregistered", "missing"},
              execution_type : {SQL, SCRIPT, None},
              content : BOOLEAN]

\* the rest of validate_task (name, script file, notifier configuration,
\* cron expression): no error, errors, or an exception inside validate_task
RestOfValidation == {"valid", "errors", "raised"}

\* what a script function can return to test_task: as in execute_task, and a
\* mapping without entries
TestKinds == ScriptKinds \cup {"dict_empty"}

\* validate_task (lines 236-307): the errors it collects
ValidateTask(t, rest) ==
    (IF t.data_source = "missing" THEN <<"data source empty">>
     ELSE IF t.data_source = "unregistered" THEN <<"data source connection failed">>
     ELSE <<>>)
    \o (IF t.execution_type \in {SQL, SCRIPT} /\ ~t.content
        THEN <<"content empty">> ELSE <<>>)
    \o (IF rest = "errors" THEN <<"configuration error">> ELSE <<>>)
    \o (IF rest = "raised" THEN <<"validation raised">> ELSE <<>>)

\* a test_task without the except clause of lines 376-378
TestCatch_m == "raised"

\* test_task, lines 376-378: except Exception appends str(e) to the errors
TestCatch == "except"

TestFrame == UNCHANGED <<schedVars, execVars, coordVars, reg, api, coord, loader, app>>

\* the finally clause (lines 380-381) and the return
TestReturned(r) == [r EXCEPT !.execution_time = now - test.start]

\* an exception inside the try block of test_task
TestFail(msg, calls) ==
    test' = IF TestCatch = "except"
            THEN [test EXCEPT !.pc = "returned", !.failed = "data",
                              !.calls = @ \cup calls,
                              !.result = TestReturned([@ EXCEPT !.errors = Append(@, msg)])]
            ELSE [test EXCEPT !.pc = "raised", !.failed = "data",
                              !.calls = @ \cup calls]

\* a data step that produced a preview
TestSuccess(rows, calls) ==
    test' = [test EXCEPT !.pc = "returned",
                         !.calls = @ \cup calls,
                         !.result = TestReturned([@ EXCEPT !.success = TRUE,
                                                           !.has_preview = TRUE,
                                                           !.row_count = rows])]

\* test_task up to the validation (lines 311-329)
TestTask(t, rest) ==
    /\ test.pc \in {"idle", "returned"}
    /\ LET errs == ValidateTask(t, rest)
           on   == [NoTest EXCEPT !.task = t, !.start = now,
                                  !.calls = {"validate_task"}]
       IN  test' = IF errs # <<>>
                   THEN [on EXCEPT !.pc = "returned", !.failed = "validation",
                                   !.result = [NewTestResult EXCEPT !.errors = errs]]
                   ELSE [on EXCEPT !.pc = "data"]
    /\ now' = now
    /\ TestFrame

\* the data step and the preview (lines 331-374)
TestData(ok, kind, rows) ==
    /\ test.pc = "data"
    /\ IF test.task.execution_type = SQL
       THEN IF ok THEN TestSuccess(rows, {"get_data_source", "execute_query"})
            ELSE TestFail("query failed", {"get_data_source", "execute_query"})
       ELSE IF test.task.execution_type = SCRIPT
       THEN IF ~ok THEN TestFail("script raised", {"_execute_script_task"})
            ELSE IF kind = "dict_empty"
            THEN TestFail("", {"_execute_script_task"})
            ELSE IF ValidResult(kind)
            THEN TestSuccess(rows, {"_execute_script_task"})
            ELSE TestFail("script must return a frame or a mapping of frames",
                          {"_execute_script_task"})
       ELSE TestFail("result_df referenced before assignment", {})
    /\ now' = now
    /\ TestFrame

\* time passes while test_task is not running or is in its data step
TestTick ==
    /\ now < MaxClock
    /\ now' = now + 1
    /\ UNCHANGED test
    /\ TestFrame

NextTest ==
    \/ \E t \in TestTasks, rest \in RestOfValidation : TestTask(t, rest)
    \/ \E ok \in BOOLEAN, kind \in TestKinds, rows \in 0..MaxRows : TestData(ok, kind, rows)
    \/ TestTick

SpecTest == Init /\ [][NextTest]_vars

\* the operations of the Export Sink
SinkCalls == {"export_data", "export_multiple_datasets", "send_failure_notifications"}

----------------------------------------------------------------------------
(* TaskSchedulerApp._task_callback                                         *)

CoordFrame == UNCHANGED <<schedVars, execVars, engine, lock, thr, reg, api, test, loader, app>>

\* a callback that executes a failed task once more
Retried_m(status) == status = FAILED

\* _task_callback, lines 276-284: execute_task is called once and its log is
\* saved whatever its status
Retried(status) == FALSE

\* _execute_scheduled_task / _execute_manual_task call the callback, which
\* opens a session and reads the row (lines 269-273)
TaskCallback(id, trig) ==
    /\ coord.pc = "idle"
    /\ coord.fired < MaxFires
    /\ coord' = IF RowExists(table[id])
                THEN [coord EXCEPT !.pc = "execute", !.id = id, !.trig = trig,
                                   !.fired = @ + 1, !.executes = 0,
                                   !.log = NewCoord.log]
                ELSE [coord EXCEPT !.id = id, !.trig = trig, !.executes = 0,
                                   !.log = NewCoord.log]
    /\ UNCHANGED <<table, now>>
    /\ CoordFrame

\* execute_task(task, triggered_by) returns its log (line 276); it does not
\* raise
CallbackExecute(status) ==
    /\ coord.pc = "execute"
    /\ coord' = [coord EXCEPT
                   !.executes = @ + 1,
                   !.log = [status |-> status, start_time |-> now],
                   !.pc = IF Retried(status) /\ coord.executes = 0
                          THEN "execute" ELSE "commit"]
    /\ UNCHANGED <<table, now>>
    /\ CoordFrame

\* lines 279-284: the log is added, last_execution_time assigned and the
\* session committed; the UPDATE of a task row that was deleted meanwhile
\* matches no row, the commit raises and the except clause logs it
CallbackCommit ==
    /\ coord.pc = "commit"
    /\ coord' = IF RowExists(table[coord.id])
                THEN [coord EXCEPT
                        !.pc = "idle",
                        !.logs = Append(@, [task_id |-> coord.id, fire |-> coord.fired,
                                            triggered_by |-> coord.trig,
                                            status |-> coord.log.status,
                                            start_time |-> coord.log.start_time]),
                        !.last[coord.id] = coord.log.start_time]
                ELSE [coord EXCEPT !.pc = "idle"]
    /\ UNCHANGED <<table, now>>
    /\ CoordFrame

\* the API process creates or updates the row of a task
CoordCommitRow(id, r) ==
    /\ table' = [table EXCEPT ![id] = r]
    /\ coord' = IF RowExists(table[id]) THEN coord
                ELSE [coord EXCEPT !.last[id] = Null]
    /\ UNCHANGED now
    /\ CoordFrame

\* the API process deletes a task: its execution logs go with it
\* (cascade="all, delete-orphan")
CoordDeleteRow(id) ==
    /\ RowExists(table[id])
    /\ table' = [table EXCEPT ![id] = NoRow]
    /\ coord' = [coord EXCEPT
                   !.logs = SelectSeq(@, LAMBDA l : l.task_id # id),
                   !.last[id] = Null]
    /\ UNCHANGED now
    /\ CoordFrame

\* time passes
CoordTick ==
    /\ now < MaxTime
    /\ now' = now + 1
    /\ UNCHANGED <<table, coord>>
    /\ CoordFrame

NextCoord ==
    \/ \E id \in TaskIds, trig \in Triggers : TaskCallback(id, trig)
    \/ \E status \in {SUCCESS, FAILED} : CallbackExecute(status)
    \/ CallbackCommit
    \/ \E id \in TaskIds, r \in ApiRows : CoordCommitRow(id, r)
    \/ \E id \in TaskIds : CoordDeleteRow(id)
    \/ CoordTick

SpecCoord == Init /\ [][NextCoord]_vars

----------------------------------------------------------------------------
(* TaskSchedulerApp: start(), the HTTP control server and stop()            *)

AppFrame == UNCHANGED <<now, execVars, lock, thr, reg, api, test, coord, loader>>

\* start (cli/scheduler.py, lines 197-222): the service starts the Task
\* Scheduler, the active tasks are scheduled and the HTTP thread is started
CoordinatorStart ==
    /\ ~app.running /\ app.pc = "idle"
    /\ ~running
    /\ running' = TRUE
    /\ engine' = [engine EXCEPT !.state = "running"]
    /\ LET s == AddEach(Sched, TRUE, ActiveTasks, "_task_callback")
       IN  jobs' = s.jobs /\ callbacks' = s.callbacks
    /\ ret' = [op |-> "app_start", val |-> TRUE, why |-> "started"]
    /\ app' = [app EXCEPT !.running = TRUE, !.service_running = TRUE,
                          !.http_thread = "polling"]
    /\ UNCHANGED <<instances, table>>
    /\ AppFrame

\* _start_http_server, line 113: the condition of the polling loop
Polling == app.running /\ ~app.shutdown_event

\* line 114: handle_request() serves one request (or times out after a
\* second, which changes nothing)
HttpHandleRequest ==
    /\ app.http_thread = "polling"
    /\ Polling
    /\ app.server.handled < MaxRequests
    /\ app' = [app EXCEPT !.server.handled = @ + 1]
    /\ UNCHANGED <<schedVars, table, engine>>
    /\ AppFrame

\* the loop of _start_http_server ends and the thread with it
HttpExit ==
    /\ app.http_thread = "polling"
    /\ ~Polling
    /\ app' = [app EXCEPT !.http_thread = "exited"]
    /\ UNCHANGED <<schedVars, table, engine>>
    /\ AppFrame

\* stop, lines 226-235: on a running coordinator the flag is cleared and the
\* shutdown event set
StopBegin ==
    /\ app.pc = "idle"
    /\ app.running
    /\ app' = [app EXCEPT !.running = FALSE, !.shutdown_event = TRUE,
                          !.pc = "stop_http"]
    /\ UNCHANGED <<schedVars, table, engine>>
    /\ AppFrame

\* _stop_http_server, line 121: http_server.shutdown() of socketserver sets
\* the shutdown request and waits for the is_shut_down event, which
\* serve_forever sets when its loop ends.  The thread of this server polls
\* with handle_request() and never runs serve_forever.  The statements of
\* stop() behind the wait are the join of the thread (line 123) and
\* data_export_service.stop() (line 241)
ServerShutdown ==
    /\ app.pc = "stop_http"
    /\ app' = [app EXCEPT !.server.shutdown_request = TRUE,
                          !.pc = IF app.server.is_shut_down THEN "join"
                                 ELSE "shutdown_wait"]
    /\ UNCHANGED <<schedVars, table, engine>>
    /\ AppFrame

\* the engine fires the recurring jobs while the coordinator runs
NextStop ==
    \/ \E id \in TaskIds, status \in {ACTIVE, INACTIVE} :
          ~app.running /\ app.pc = "idle" /\
          CommitRow(id, [status |-> status, cron_expression |-> CronFive,
                         timezone |-> None, notified |-> FALSE])
    \/ CoordinatorStart
    \/ HttpHandleRequest
    \/ HttpExit
    \/ StopBegin
    \/ ServerShutdown
    \/ \E id \in TaskIds : CronFire(id)
    \/ \E jid \in TaskJobIds : FireDone(jid)
    \/ Tick

\* the threads of the process keep running: the thread inside stop(), the
\* HTTP thread and the engine's workers each take their next step
SpecStop ==
    /\ Init
    /\ [][NextStop]_vars
    /\ WF_vars(ServerShutdown)
    /\ WF_vars(HttpExit)
    /\ \A jid \in TaskJobIds : WF_vars(FireDone(jid))

----------------------------------------------------------------------------
(* Claims about the Task Scheduler *)

\* C1: for every task id at most one fire of its recurring job is executing
\* at any instant; a fire that comes due while the previous one is still
\* running is skipped, also when the job was replaced in between.
C1_CronFiresNeverOverlap == \A id \in TaskIds : RunningCron(id) <= 1

\* a fire was skipped because the previous fire of the same job still runs
C1_Witness ==
    /\ ret.op = "cron_fire" /\ ret.why = "max_instances"
    /\ \E id \in TaskIds : RunningCron(id) = 1 /\ TaskJobId(id) \in DOMAIN jobs

\* C2: a manual fire and a cron fire of the same task id share one gate:
\* while one of them is executing the other one is not.
C2_ManualAndCronShareGate ==
    \A id \in TaskIds : ~(RunningCron(id) > 0 /\ RunningManual(id) > 0)

\* C3: two manual executions of the same task (executeNow called twice)
\* never run at the same time.
C3_ManualFiresNeverOverlap == \A id \in TaskIds : RunningManual(id) <= 1

\* C8: addTask of a task that is not active or has no cron expression
\* returns false and leaves the jobs and the callback table unchanged.
C8_AddIneligibleIsNoop ==
    [][\A t \in SchedTasks, cb \in Callbacks :
          (AddTask(t, cb) /\ (t.status # ACTIVE \/ t.cron_expression = None))
          => (ret'.val = FALSE /\ jobs' = jobs /\ callbacks' = callbacks)]_vars

\* addTask skipped an ineligible task while a job and a callback were registered
C8_Witness ==
    /\ ret.op = "add" /\ ret.why = "skipped"
    /\ jobs # <<>> /\ callbacks # <<>>

\* C9: after addTask of an active task with a valid (five-field) cron
\* expression, getTaskStatus reports scheduled: true and a non-null next-run
\* time.
C9_StatusAfterAdd ==
    [][\A t \in SchedTasks, cb \in Callbacks :
          (AddTask(t, cb) /\ IsActive(t) /\ t.cron_expression = CronFive)
          => LET st == GetTaskStatus(jobs', t.id)
             IN  ~st.raised /\ st.scheduled /\ st.next_run_time # None]_vars

\* C10: from every scheduler state, updateTask(task, cb) of an eligible task
\* leaves the same jobs, triggers and callback registrations, and returns the
\* same value, as removeTask(id) followed by addTask(task, cb).
C10_UpdateIsRemoveThenAdd ==
    [][\A t \in SchedTasks, cb \in Callbacks :
          (UpdateTask(t, cb) /\ Eligible(t))
          => LET r == RemoveTaskSt(Sched, t.id)
                 a == AddTaskSt([jobs |-> r.jobs, callbacks |-> r.callbacks],
                                running, t, cb)
             IN  jobs' = a.jobs /\ callbacks' = a.callbacks /\ ret'.val = a.val]_vars

\* updateTask without a callback replaced a job: the job is scheduled and no
\* callback is registered for it
C10_Witness ==
    /\ ret.op = "update" /\ ret.why = "added"
    /\ \E id \in TaskIds :
          TaskJobId(id) \in DOMAIN jobs /\ TaskJobId(id) \notin DOMAIN callbacks

----------------------------------------------------------------------------
(* Claims about execute_query and execute_task *)

\* C4: a query whose driver call has not completed when the timeout elapses
\* raises to its caller at the timeout without waiting for the driver call:
\* the calling thread is never held inside execute_query past the timeout.
C4_TimeoutReleasesCaller ==
    (pc = "sql" /\ query.call \in {"waiting", "draining"})
        => now - query.t0 <= query.timeout

\* C5: executeTask never raises to its caller, and the log it returns is in
\* a terminal state (success or failed) with its end time set.
C5_ExecuteTaskNeverRaises ==
    /\ pc # "raised"
    /\ pc = "returned" => (log.status \in {SUCCESS, FAILED} /\ log.end_time # Null)

\* a failed execution whose failure notification raised has returned its log
C5_Witness ==
    pc = "returned" /\ log.status = FAILED /\ env.notify = "raised"

\* C6: in every returned log, duration is end time minus start time; the
\* duration of the SQL or script step never stays in the field.
C6_DurationIsEndMinusStart ==
    pc = "returned" => log.duration = log.end_time - log.start_time

\* a returned log of an execution whose data step took less time than the
\* whole execution
C6_Witness ==
    /\ pc = "returned"
    /\ env.step_duration # Null
    /\ env.step_duration # log.end_time - log.start_time

\* C7: the status of the log changes once, from running to a terminal state,
\* and no field of the log is modified after that change.
C7_LogFrozenWhenTerminal ==
    [][/\ (log.status = RUNNING /\ log'.status # RUNNING) => log'.status \in Terminal
       /\ log.status \in Terminal => log' = log]_vars

----------------------------------------------------------------------------
(* Claims about operations called from several threads *)

\* C11: removeTask never raises; a call that answers true leaves neither the
\* job nor the callback of the id; a call that answers false leaves the jobs
\* as they were, with no job for the id, also when it lost a race against
\* another removeTask of the same id; a call that runs alone and finds the
\* job answers true.
C11_RemoveTaskIdempotent ==
    /\ [](\A th \in Threads : thr[th].pc # "raised")
    /\ [][\A th \in Threads :
            (thr[th].op = "remove" /\ ~Idle(th) /\ thr'[th].pc = "idle")
            => LET jid == TaskJobId(thr[th].id)
               IN  /\ ret'.val => (jid \notin DOMAIN jobs' /\ jid \notin DOMAIN callbacks')
                   /\ ~ret'.val => (jobs' = jobs /\ jid \notin DOMAIN jobs')
                   /\ (~thr[th].overlap /\ thr[th].pre.jobs # <<>>) => ret'.val]_vars

\* a removeTask that saw the job lost the race: the other call removed the
\* job first, the engine's error was answered with false
C11_Witness ==
    /\ ret.op = "remove" /\ ret.why = "lookup_error"
    /\ \E th \in Threads : thr[th].op = "remove" /\ thr[th].pc = "del_cb"

\* C12: once all reload-task requests have completed, the job of every task
\* id whose last commit was followed by a request reflects the row as last
\* committed: last writer wins.
C12_LastCommitWins ==
    (running /\ AllIdle)
    => \A id \in TaskIds :
          (RowExists(table[id]) /\ table[id].notified)
          => JobReflects(jobs, id, table[id])

\* C13: when a reload-task request (create or update) that ran alone
\* completes, the task id has a recurring job iff the row it read exists and
\* is schedulable; with no row there is no job.
C13_ReloadMatchesRow ==
    [][\A th \in Threads :
          (thr[th].op = "update" /\ ~Idle(th) /\ thr'[th].pc = "idle"
           /\ ~thr[th].overlap)
          => LET row == IF thr[th].pc = "read" THEN table[thr[th].id]
                        ELSE thr[th].snap
             IN  TaskJobId(thr[th].id) \in DOMAIN jobs'
                 <=> (RowExists(row) /\ Schedulable(RowTask(thr[th].id, row)))]_vars

\* C14: when a reload-task request that ran alone is answered as failed,
\* the job and the callback of the task id are as they were when the
\* request arrived.
C14_FailedReloadChangesNothing ==
    [][\A th \in Threads :
          (thr[th].op \in {"update", "delete"} /\ ~Idle(th) /\ thr'[th].pc = "idle"
           /\ ~thr[th].overlap /\ ~ret'.val)
          => /\ Only(jobs', {TaskJobId(thr[th].id)}) = thr[th].pre.jobs
             /\ Only(callbacks', {TaskJobId(thr[th].id)}) = thr[th].pre.callbacks]_vars

C17_StopDrainsFires ==
    /\ []((~running /\ ~EngineRunning) => \A j \in JobIds : instances[j] = 0)
    /\ [][/\ (\E j \in JobIds : instances'[j] > instances[j]) => EngineRunning
          /\ \A th \in Threads :
                (thr[th].op = "stop" /\ thr[th].pc = "drain" /\ thr'[th].pc = "idle")
                => (~running' /\ \A j \in JobIds : instances'[j] = 0)]_vars

\* a stop() that found a fire in flight has returned
C17_Witness ==
    /\ ret.op = "stop" /\ ret.why = "drained"
    /\ ~running /\ ~EngineRunning

\* C18: under any interleaving of start() and stop() calls the engine is
\* started only when it is stopped and shut down only when it is running;
\* start() on a running scheduler and stop() on a stopped one change nothing.
C18_StartStopIdempotent ==
    /\ [](engine.fault = None)
    /\ [][\A th \in Threads :
            (/\ thr[th].op \in {"start", "stop"} /\ thr[th].pc = "check"
             /\ running = (thr[th].op = "start")
             /\ (StartCheck(th) \/ StopCheck(th)))
            => (/\ thr'[th].pc = "idle"
                /\ UNCHANGED <<running, engine, jobs, callbacks, instances>>)]_vars

\* two start() calls at the same time: one has started the engine and holds
\* the lock, the other one waits for the lock
C18_Witness ==
    \E a, b \in Threads :
        /\ thr[a].op = "start" /\ thr[a].pc = "set_running" /\ lock = a
        /\ thr[b].op = "start" /\ thr[b].pc = "acquire"

----------------------------------------------------------------------------
(* Claims about the checks of execute_task *)

\* C19: when the task is inactive, or its data source is not registered (its
\* row is gone, or its name is not in the connection cache), or its SQL text /
\* script reference is missing, executeTask returns a failed log with no
\* output file path, no query was submitted and no export was made, and the
\* error message describes the check that failed.
C19_RejectedBeforeDataStep ==
    (/\ pc = "returned"
     /\ \/ task.status = INACTIVE
        \/ task.data_source \in {"unregistered", "missing"}
        \/ (task.execution_type \in {SQL, SCRIPT} /\ ~task.content))
    => /\ log.status = FAILED
       /\ log.output_file_path = None
       /\ query = NoQuery
       /\ env.results = None
       /\ log.error_message \in {"task not active", "data source not registered",
                                 "sql content empty", "script reference empty"}

\* C20: once the function of a script task has returned something that is
\* neither a frame nor a mapping of frames, executeTask does not raise, makes
\* no export and returns a failed log that carries the contract violation.
C20_ScriptContractViolation ==
    (pc # "idle" /\ env.returned \in {"other", "dict_other"})
    => /\ pc \in {"notify", "returned"}
       /\ log.status = FAILED
       /\ log.error_message = "script must return a frame or a mapping of frames"
       /\ env.results = None

\* a script task whose function returned a string has returned its failed log
C20_Witness ==
    /\ pc = "returned"
    /\ task.execution_type = SCRIPT /\ env.returned = "other"
    /\ log.status = FAILED

\* C21: when the failure notification of a failed execution raises,
\* executeTask still returns without raising, and the log stays failed with
\* the error message and the trace that the primary failure wrote.
C21_NotificationNeverMasks ==
    [][(pc = "notify" /\ pc' # "notify" /\ env'.notify = "raised")
         => /\ pc' = "returned"
            /\ log.status = FAILED /\ log.error_message # None
            /\ log'.status = FAILED
            /\ log'.error_message = log.error_message
            /\ log'.error_traceback = log.error_traceback
            /\ log'.error_traceback = <<"Traceback", log.error_message>>]_vars

\* a query failed, the failure notification raised, and the log that was
\* returned carries the failure of the query
C21_Witness ==
    /\ pc = "returned" /\ env.notify = "raised"
    /\ log.status = FAILED /\ log.error_message = "query failed"

\* C25: script execution is bounded by the configured timeout: the thread
\* executing a script task is never inside the script function for longer
\* than the timeout, after which executeTask returns a failed log.
C25_ScriptBoundedByTimeout ==
    pc = "script" => now - env.step_start <= QueryTimeout

\* C27: whenever executeTask returns a log with status success, the output
\* artifact path of the log is set: an export that did not write the
\* artifact never ends in a success log without an artifact.
C27_SuccessHasArtifact ==
    (pc = "returned" /\ log.status = SUCCESS) => log.output_file_path # None

\* C28: when executeTask returns success, rows_affected of the log is the
\* number of rows the data step produced: 0 for an empty result, the total
\* over all datasets for a mapping of named results.
C28_RowsAffectedIsRowCount ==
    (pc = "returned" /\ log.status = SUCCESS) => log.rows_affected = env.data.rows

----------------------------------------------------------------------------
(* Claims about the rejection of cron expressions *)

\* C29: whenever addTask returns false because the cron expression is not
\* accepted, by its own validation or by the trigger construction of the job
\* engine, the jobs (among them a job already scheduled under the task id)
\* and the callback table are exactly as before the call.
C29_InvalidCronNoSideEffect ==
    [][\A t \in SchedTasks, cb \in Callbacks :
          (AddTask(t, cb) /\ ~ret'.val /\ ret'.why \in {"invalid", "error"})
          => jobs' = jobs /\ callbacks' = callbacks]_vars

----------------------------------------------------------------------------
(* Claims about the registry of connections *)

\* C22: register stores the handle under the name only after the probe has
\* succeeded; when the probe fails it raises, and engines, session factories
\* and cached configs are exactly as before the call.
C22_RegisterStoresAfterProbe ==
    [][\A n \in SourceNames, cfg \in SourceConfigs, ok \in BOOLEAN :
         AddDataSource(n, cfg, ok) =>
            IF ok
            THEN /\ ~reg'.last.raised
                 /\ n \in DOMAIN reg'.engines
                 /\ reg'.engines[n] = Len(reg.handles) + 1
                 /\ reg'.handles[reg'.engines[n]].state = "live"
                 /\ reg'.sessions[n] = reg'.engines[n]
                 /\ reg'.cache[n] = cfg
            ELSE /\ reg'.last.raised
                 /\ reg'.engines = reg.engines
                 /\ reg'.sessions = reg.sessions
                 /\ reg'.cache = reg.cache]_vars

\* a register whose probe failed has raised while another name is registered
C22_Witness ==
    /\ reg.last.op = "add_data_source" /\ reg.last.raised
    /\ \E n \in DOMAIN reg.engines : n # reg.last.name

\* C23: after any sequence of register, unregister, reload and close-all
\* there is at most one live handle per name, and whenever the handle of a
\* name is replaced the old handle has been disposed.
C23_OneLiveHandlePerName ==
    /\ [](\A n \in SourceNames : Cardinality(LiveHandles(reg, n)) <= 1)
    /\ [][\A n \in (DOMAIN reg.engines) \cap (DOMAIN reg'.engines) :
            reg'.engines[n] # reg.engines[n]
               => reg'.handles[reg.engines[n]].state = "disposed"]_vars

----------------------------------------------------------------------------
(* Claims about the API process *)

\* C24: a task create, update or delete commits the row and returns its
\* result without waiting for the notification of the scheduler, and a
\* notification that fails, times out or finds no scheduler changes neither
\* the committed row nor the response.
C24_MutationIndependentOfNotification ==
    [][/\ \A op \in ApiOps, id \in TaskIds, r \in ApiRows, valid \in BOOLEAN :
            (ApiTask(op, id, r, valid) /\ api'.response.success)
               => /\ table'[id] = (IF op = "delete" THEN NoRow ELSE r)
                  /\ Len(api'.notes) = Len(api.notes) + 1
                  /\ api'.notes[Len(api'.notes)] = [id |-> id, action |-> op]
       /\ \A i \in 1..MaxNotes, outcome \in NoteOutcomes :
            NoteDone(i, outcome)
               => table' = table /\ api'.response = api.response]_vars

\* an update was answered with success, its notification found no scheduler,
\* and the row is still there
C24_Witness ==
    /\ api.done.outcome = "unreachable" /\ api.done.action = "update"
    /\ api.req = [op |-> "update", id |-> api.done.id]
    /\ api.response.success
    /\ RowExists(table[api.done.id])

----------------------------------------------------------------------------
(* Claims about test_task *)

\* C26: testTask never invokes the Export Sink and never raises; every path
\* returns a result with a success flag, which is false with a non-empty
\* error list when validation or the data step failed.
C26_TestTaskNeverExports ==
    /\ test.pc # "raised"
    /\ test.calls \cap SinkCalls = {}
    /\ test.pc = "returned"
         => /\ test.result.success \in BOOLEAN
            /\ test.result.success <=> test.failed = None
            /\ test.failed # None => test.result.errors # <<>>

\* test_task has returned the failure of a script function that returned
\* something that is no frame
C26_Witness ==
    /\ test.pc = "returned" /\ test.failed = "data"
    /\ test.task.execution_type = SCRIPT
    /\ ~test.result.success
    /\ test.result.errors = <<"script must return a frame or a mapping of frames">>

----------------------------------------------------------------------------
(* Claims about the task callback *)

----------------------------------------------------------------------------
(* Task Executor: the cache of script functions *)

LoaderFrame == UNCHANGED <<schedVars, now, execVars, coordVars, reg, api, test, coord, app>>

\* _load_script_function, line 183: f"{script_path}::{function_name}"
CacheKey(p, f) == p \o Sep \o f

\* a loader that goes to the file every time
CacheHit_m(c, key) == FALSE

\* line 184: cache_key in self._script_cache
CacheHit(c, key) == key \in DOMAIN c

\* the function object a load of path p makes out of the file as it is now
Loaded(l, p) == [kind |-> "function", path |-> p, version |-> l.files[p].version]

\* _load_script_function (lines 180-218), with out telling how it ended
LoadScriptFunctionSt(l, p, f) ==
    LET key  == CacheKey(p, f)
        file == l.files[p]
        call == [op |-> "load", path |-> p, fn |-> f, read |-> FALSE,
                 raised |-> None, result |-> NoFile]
    IN  IF CacheHit(l.cache, key)
        THEN [l EXCEPT !.out = [call EXCEPT !.result = l.cache[key]]]
        ELSE IF file.kind = "absent"
        THEN [l EXCEPT !.out = [call EXCEPT !.raised = "FileNotFoundError"]]
        ELSE IF file.kind = "broken"
        THEN [l EXCEPT !.out = [call EXCEPT !.read = TRUE, !.raised = "Exception"]]
        ELSE IF f \notin file.names
        THEN [l EXCEPT !.out = [call EXCEPT !.read = TRUE, !.raised = "AttributeError"]]
        ELSE [l EXCEPT !.cache = [k \in DOMAIN l.cache \cup {key} |->
                                     IF k = key THEN Loaded(l, p) ELSE l.cache[k]],
                       !.since = [q \in DOMAIN l.since \cup {<<p, f>>} |->
                                     IF q = <<p, f>> THEN Loaded(l, p) ELSE l.since[q]],
                       !.out = [call EXCEPT !.read = TRUE, !.result = Loaded(l, p)]]

\* an execution of a script task resolves its function (line 142)
LoadScriptFunction(p, f) ==
    /\ loader' = LoadScriptFunctionSt(loader, p, f)
    /\ LoaderFrame

\* clear_script_cache (lines 388-391)
ClearScriptCache ==
    /\ loader' = [loader EXCEPT !.cache = <<>>, !.since = <<>>,
                                !.out = [op |-> "clear", path |-> <<>>, fn |-> <<>>,
                                         read |-> FALSE, raised |-> None,
                                         result |-> NoFile]]
    /\ LoaderFrame

\* somebody deploys, edits, breaks or deletes a script file
WriteFile(p, c) ==
    /\ c # loader.files[p]
    /\ loader' = [loader EXCEPT !.files[p] = c,
                                !.out = [op |-> "write", path |-> p, fn |-> <<>>,
                                         read |-> FALSE, raised |-> None,
                                         result |-> NoFile]]
    /\ LoaderFrame

NextLoader ==
    \/ \E p \in ScriptPaths, f \in FunctionNames : LoadScriptFunction(p, f)
    \/ ClearScriptCache
    \/ \E p \in ScriptPaths, c \in FileContents : WriteFile(p, c)

SpecLoader == Init /\ [][NextLoader]_vars

----------------------------------------------------------------------------
(* Claims about reload requests and the upkeep of the scheduler *)

\* C31: when a reload-task request with action delete completes, the task id
\* has no recurring job and no callback registration, and the request is
\* answered with success, also when the task had no job beforehand.
C31_DeleteRequestSucceeds ==
    [][\A th \in Threads :
         ReloadDelete(th)
            => /\ TaskJobId(thr[th].id) \notin DOMAIN jobs'
               /\ TaskJobId(thr[th].id) \notin DOMAIN callbacks'
               /\ ret'.val]_vars

\* C32: cleanupCompletedJobs removes only one-shot jobs whose next-fire time
\* is null; recurring jobs, paused ones among them, the callback
\* registrations and the one-shot jobs that have not fired are unchanged.
C32_CleanupKeepsLiveJobs ==
    [][CleanupCompletedJobs
         => /\ callbacks' = callbacks
            /\ DOMAIN jobs' \subseteq DOMAIN jobs
            /\ \A j \in DOMAIN jobs :
                  \/ j \in DOMAIN jobs' /\ jobs'[j] = jobs[j]
                  \/ j[1] = "manual" /\ jobs[j].next_run_time = None]_vars

\* the cleanup has run over a paused recurring job and a one-shot job that
\* is waiting for its run date
C32_Witness ==
    /\ ret.op = "cleanup" /\ ret.val
    /\ \E j \in TaskJobIds \cap DOMAIN jobs : jobs[j].next_run_time = None
    /\ \E j \in ManualJobIds \cap DOMAIN jobs : jobs[j].next_run_time = NextSet

\* C33: when the callback raises during a cron or a manual fire, the
\* exception stays inside the fire handler: the scheduler keeps running, the
\* jobs stay as they are, and a recurring job that is scheduled can fire again.
C33_RaisingCallbackIsContained ==
    [][\A jid \in JobIds :
         FireRaise(jid)
            => /\ ret'.val
               /\ running' = running
               /\ jobs' = jobs
               /\ callbacks' = callbacks
               /\ (/\ jid \in TaskJobIds \cap DOMAIN jobs
                   /\ running
                   /\ jobs[jid].next_run_time = NextSet)
                  => /\ ENABLED CronFire(jid[2])
                     /\ CanSubmit(instances'[jid], jobs'[jid])]_vars

\* a cron fire whose callback raised, with the recurring job still scheduled
C33_WitnessCron ==
    /\ ret.op = "fire_raised" /\ ret.why = "task"
    /\ running
    /\ \E j \in TaskJobIds \cap DOMAIN jobs : jobs[j].next_run_time = NextSet

\* C34: a function loaded for a pair (script path, function name) is what
\* every later load of that pair returns, without executing the file, until
\* the cache is cleared; a load that fails caches nothing; with the cache
\* empty, a load goes to the file again.
C34_LoadOnceUntilCleared ==
    [][\A p \in ScriptPaths, f \in FunctionNames :
         LoadScriptFunction(p, f)
            => /\ <<p, f>> \in DOMAIN loader.since
                  => /\ loader'.out.raised = None
                     /\ ~loader'.out.read
                     /\ loader'.out.result = loader.since[<<p, f>>]
               /\ loader'.out.raised # None => loader'.cache = loader.cache
               /\ (loader.cache = <<>> /\ loader.files[p].kind # "absent")
                  => /\ loader'.out.read
                     /\ loader'.out.raised = None
                        => loader'.out.result.version = loader.files[p].version]_vars

\* a pair was loaded, its file was rewritten, and the pair was loaded again
C34_Witness ==
    /\ loader.out.op = "load" /\ loader.out.raised = None /\ ~loader.out.read
    /\ <<loader.out.path, loader.out.fn>> \in DOMAIN loader.since
    /\ loader.files[loader.out.path].version # loader.out.result.version

C36_RacesAnswerFalse ==
    ret.op \in {"add", "remove", "update", "reschedule_all"}
       => ret.why # "raised"

\* C37: after any sequence of addTask, updateTask, removeTask, rescheduleAll
\* and reload requests, the recurring jobs and the callback registrations
\* cover the same job ids: no job without a callback, no callback without
\* a job.
C37_JobsAndCallbacksAgree ==
    DOMAIN callbacks = TaskJobIds \cap DOMAIN jobs

\* C38: a reload-all request that runs next to reload-task requests
\* completes: no interleaving makes it abort between the removal of the
\* recurring jobs and their re-adding.
C38_ReloadAllCompletes ==
    ret.op = "reload_all" => ret.val

\* C39: stop() on a running coordinator eventually returns, and by then the
\* HTTP control server no longer serves, the Task Scheduler is stopped and
\* the handles of the Connection Registry are disposed.
C39_StopReturns ==
    (app.pc = "stop_http")
       ~> (/\ app.pc = "returned"
           /\ app.http_thread # "polling"
           /\ ~running
           /\ \A n \in SourceNames : LiveHandles(reg, n) = {})

\* C40: the pause of a task survives an updateTask for that task id: a
\* recurring job that is paused is still paused after the update, so that it
\* does not fire before resumeTask.
C40_PauseSurvivesUpdate ==
    [][\A id \in TaskIds :
         (/\ TaskJobId(id) \in DOMAIN jobs
          /\ jobs[TaskJobId(id)].next_run_time = None
          /\ \E t \in SchedTasks, cb \in Callbacks : t.id = id /\ UpdateTask(t, cb))
            => (TaskJobId(id) \in DOMAIN jobs'
                  => jobs'[TaskJobId(id)].next_run_time = None)]_vars

====
